---- MODULE Spec2Model ----
(***************************************************************************)
(* A model of quartz_nbt: the binary NBT reader and writer (src/io.rs,     *)
(* src/raw.rs), the SNBT printer (src/tag.rs) and the SNBT lexer and       *)
(* parser (src/snbt.rs).                                                   *)
(*                                                                         *)
(* Representation.  A byte is a number in 0..255.  A character is its      *)
(* Unicode code point, a string a sequence of characters.  An NbtTag is a  *)
(* pair <<tag ID, payload>>.  i8, i16 and i32 payloads are integers; the   *)
(* 64-bit payloads (i64, f64) and f32 are kept as their big-endian image,  *)
(* a sequence of 8 or 4 bytes, because the integers of the checker are     *)
(* 32 bits wide.  An NbtCompound is a function from names to tags (a       *)
(* HashMap: no order), an NbtList a sequence of tags.                      *)
(***************************************************************************)
EXTENDS Integers, Sequences, FiniteSets, TLC

VARIABLES
    pc,         \* position of the driver: which call comes next
    api,        \* the writer that was called: io::write_nbt or a serde Serializer;
                \* of a lexer, the call made last: peek or next
    root,       \* the NbtCompound handed to write_nbt
    root_name,  \* Option<&str> handed to write_nbt
    writer,     \* the bytes in the writer / the stream handed to read_nbt
    wres,       \* Result of write_nbt
    rres,       \* Result of read_nbt; of a lexer, the call and the item before
                \* the last call
    text,       \* the string handed to snbt::parse or to Lexer::new
    pres,       \* Result of snbt::parse; of a lexer, the item of the last call
                \* and the lexer it left
    frames      \* the locals of the calls in progress when the lexer and
                \* the parser are followed turn by turn, innermost last

vars == <<pc, api, root, root_name, writer, wres, rres, text, pres, frames>>

-----------------------------------------------------------------------------
(* Bounds of the model *)

MaxListLen == 2
MaxEntries == 2

-----------------------------------------------------------------------------
(* Generic helpers *)

None == <<"None">>
Some(x) == <<"Some", x>>

\* the sequences over S of length at most n
SeqsUpTo(S, n) == UNION {[1..k -> S] : k \in 0..n}

\* HashMap iteration: every order of the keys is possible
RECURSIVE Orders(_)
Orders(S) ==
    IF S = {} THEN {<<>>}
    ELSE UNION {{<<k>> \o o : o \in Orders(S \ {k})} : k \in S}

Pow2(n) == 2 ^ n

-----------------------------------------------------------------------------
(* NbtTag, NbtList, NbtCompound *)

TagByte(v)      == <<1, v>>
TagShort(v)     == <<2, v>>
TagInt(v)       == <<3, v>>
TagLong(v)      == <<4, v>>
TagFloat(v)     == <<5, v>>
TagDouble(v)    == <<6, v>>
TagByteArray(v) == <<7, v>>
TagString(v)    == <<8, v>>
TagList(v)      == <<9, v>>
TagCompound(v)  == <<10, v>>
TagIntArray(v)  == <<11, v>>
TagLongArray(v) == <<12, v>>

\* raw::id_for_tag(Some(tag)); id_for_tag(None) is TAG_End
id_for_tag(tag) == tag[1]
TAG_End == 0

Payload(tag) == tag[2]

\* NbtCompound::new
NbtCompoundNew == [k \in {} |-> <<0, 0>>]

\* an insert that leaves the value of a present key as it is, as
\* HashMap::entry(name).or_insert(tag) does
NbtCompoundInsertKeepFirst(compound, name, tag) ==
    [k \in (DOMAIN compound) \cup {name} |->
        IF k \in DOMAIN compound THEN compound[k] ELSE tag]
\* NbtCompound::insert: HashMap::insert replaces the value of a present key
NbtCompoundInsert(compound, name, tag) ==
    [k \in (DOMAIN compound) \cup {name} |-> IF k = name THEN tag ELSE compound[k]]

\* the big-endian two's complement image of a small i64
I64(n) ==
    IF n >= 0 THEN <<0, 0, 0, 0, 0, 0, (n \div 256) % 256, n % 256>>
    ELSE <<255, 255, 255, 255, 255, 255, ((n + 65536) \div 256) % 256, (n + 65536) % 256>>

-----------------------------------------------------------------------------
(* raw.rs: big-endian primitives *)

\* value as u8 / u16 of a signed value
ToUnsigned(v, bits) == IF v < 0 THEN v + Pow2(bits) ELSE v
\* value as i8 / i16 of an unsigned value
ToSigned(u, bits) == IF u >= Pow2(bits - 1) THEN u - Pow2(bits) ELSE u

write_u8(value)  == <<value>>
write_i8(value)  == <<ToUnsigned(value, 8)>>
write_u16(value) == <<value \div 256, value % 256>>
\* a writer that puts the low byte of a short first
write_i16_low_byte_first(value) ==
    <<ToUnsigned(value, 16) % 256, ToUnsigned(value, 16) \div 256>>
write_i16(value) == write_u16(ToUnsigned(value, 16))
write_i32(value) ==
    LET low == IF value < 0 THEN (value + 2147483647) + 1 ELSE value
        top == (low \div 16777216) + (IF value < 0 THEN 128 ELSE 0)
    IN  <<top, (low \div 65536) % 256, (low \div 256) % 256, low % 256>>
\* i64, f32 and f64 are carried as their big-endian image
write_i64(value) == value
write_f32(value) == value
write_f64(value) == value

\* the bytes b[pos+1 .. pos+n] of a stream, pos being the bytes consumed so far
Avail(bytes, pos, n) == n <= Len(bytes) - pos
Take(bytes, pos, n) == SubSeq(bytes, pos + 1, pos + n)

from_be_u16(b) == b[1] * 256 + b[2]
from_be_i16(b) == ToSigned(from_be_u16(b), 16)
from_be_i32(b) ==
    (IF b[1] >= 128 THEN b[1] - 256 ELSE b[1]) * 16777216
        + b[2] * 65536 + b[3] * 256 + b[4]

-----------------------------------------------------------------------------
(* Java modified UTF-8 (crate cesu8), as used by raw::write_string and     *)
(* raw::read_string.  Long strings are handled by halving, so that the     *)
(* depth of the evaluation stays logarithmic in the length.                *)

Enc3(c) == <<224 + (c \div 4096), 128 + ((c \div 64) % 64), 128 + (c % 64)>>

\* the encoding of one character: NUL is C0 80, a supplementary character is
\* a surrogate pair of two three-byte sequences
EncChar(c) ==
    IF c = 0 THEN <<192, 128>>
    ELSE IF c < 128 THEN <<c>>
    ELSE IF c < 2048 THEN <<192 + (c \div 64), 128 + (c % 64)>>
    ELSE IF c < 65536 THEN Enc3(c)
    ELSE Enc3(55296 + ((c - 65536) \div 1024)) \o Enc3(56320 + ((c - 65536) % 1024))

RECURSIVE EncRange(_, _, _)
EncRange(string, lo, hi) ==
    IF lo > hi THEN <<>>
    ELSE IF lo = hi THEN EncChar(string[lo])
    ELSE LET mid == (lo + hi) \div 2
         IN  EncRange(string, lo, mid) \o EncRange(string, mid + 1, hi)

to_java_cesu8(string) == EncRange(string, 1, Len(string))

IsCont(b) == b >= 128 /\ b <= 191

DecErr == [ok |-> FALSE, s |-> <<>>, has4 |-> FALSE, hasJava |-> FALSE]
DecOk(s, has4, hasJava) == [ok |-> TRUE, s |-> s, has4 |-> has4, hasJava |-> hasJava]

\* one unit starting at bytes[i], not reaching past hi:
\* [ok, s (zero or one character), next index, has4, hasJava]
DecodeUnit(bytes, i, hi) ==
    LET b1 == bytes[i]
        Cont(k) == i + k <= hi /\ IsCont(bytes[i + k])
        Unit(c, n, h4, hj) == [ok |-> TRUE, c |-> c, next |-> i + n, has4 |-> h4, hasJava |-> hj]
        Bad == [ok |-> FALSE, c |-> 0, next |-> i, has4 |-> FALSE, hasJava |-> FALSE]
    IN  IF b1 <= 127 THEN Unit(b1, 1, FALSE, FALSE)
        ELSE IF b1 = 192 THEN
            IF i + 1 <= hi /\ bytes[i + 1] = 128 THEN Unit(0, 2, FALSE, TRUE) ELSE Bad
        ELSE IF b1 >= 194 /\ b1 <= 223 THEN
            IF Cont(1) THEN Unit((b1 - 192) * 64 + (bytes[i + 1] - 128), 2, FALSE, FALSE) ELSE Bad
        ELSE IF b1 >= 224 /\ b1 <= 239 THEN
            IF ~(Cont(1) /\ Cont(2)) THEN Bad
            ELSE LET b2 == bytes[i + 1]
                     b3 == bytes[i + 2]
                     c3 == (b1 - 224) * 4096 + (b2 - 128) * 64 + (b3 - 128)
                 IN  IF (b1 = 224 /\ b2 >= 160) \/ (b1 >= 225 /\ b1 <= 236)
                            \/ (b1 = 237 /\ b2 <= 159) \/ b1 >= 238
                     THEN Unit(c3, 3, FALSE, FALSE)
                     ELSE IF b1 = 237 /\ b2 <= 175 THEN
                        \* high surrogate: a low surrogate ED B0..BF xx must follow
                        IF i + 5 <= hi /\ bytes[i + 3] = 237 /\ bytes[i + 4] >= 176
                              /\ bytes[i + 4] <= 191 /\ IsCont(bytes[i + 5])
                        THEN Unit(65536 + (c3 - 55296) * 1024
                                    + ((bytes[i + 4] - 160) * 64 + (bytes[i + 5] - 128) - 1024),
                                  6, FALSE, TRUE)
                        ELSE Bad
                     ELSE Bad
        ELSE IF b1 >= 240 /\ b1 <= 244 THEN
            IF ~(Cont(1) /\ Cont(2) /\ Cont(3)) THEN Bad
            ELSE LET b2 == bytes[i + 1]
                 IN  IF (b1 = 240 /\ b2 >= 144) \/ (b1 >= 241 /\ b1 <= 243) \/ (b1 = 244 /\ b2 <= 143)
                     THEN Unit((b1 - 240) * 262144 + (b2 - 128) * 4096
                                  + (bytes[i + 2] - 128) * 64 + (bytes[i + 3] - 128),
                               4, TRUE, FALSE)
                     ELSE Bad
        ELSE Bad

RECURSIVE DecodeSeq(_, _, _)
DecodeSeq(bytes, lo, hi) ==
    IF lo > hi THEN DecOk(<<>>, FALSE, FALSE)
    ELSE LET u == DecodeUnit(bytes, lo, hi)
         IN  IF ~u.ok THEN DecErr
             ELSE LET rest == DecodeSeq(bytes, u.next, hi)
                  IN  IF ~rest.ok THEN DecErr
                      ELSE DecOk(<<u.c>> \o rest.s, u.has4 \/ rest.has4,
                                 u.hasJava \/ rest.hasJava)

\* a place to cut bytes[lo..hi] at or after m that does not split a unit
CutAt(bytes, lo, hi, m) ==
    LET Start(j) == j > hi \/ ~IsCont(bytes[j])
        LowHalf(j) == /\ j + 1 <= hi /\ j - 3 >= lo
                      /\ bytes[j] = 237 /\ bytes[j + 1] >= 176 /\ bytes[j + 1] <= 191
                      /\ bytes[j - 3] = 237 /\ bytes[j - 2] >= 160 /\ bytes[j - 2] <= 175
        cands == {j \in m .. m + 3 : Start(j)}
        j0 == IF cands = {} THEN m ELSE CHOOSE j \in cands : \A k \in cands : j <= k
    IN  IF j0 <= hi /\ LowHalf(j0) THEN j0 + 3 ELSE j0

ChunkLen == 16

RECURSIVE DecodeRange(_, _, _)
DecodeRange(bytes, lo, hi) ==
    IF hi - lo < ChunkLen THEN DecodeSeq(bytes, lo, hi)
    ELSE LET cut == CutAt(bytes, lo, hi, (lo + hi) \div 2)
             left == DecodeRange(bytes, lo, cut - 1)
         IN  IF ~left.ok THEN DecErr
             ELSE LET right == DecodeRange(bytes, cut, hi)
                  IN  IF ~right.ok THEN DecErr
                      ELSE DecOk(left.s \o right.s, left.has4 \/ right.has4,
                                 left.hasJava \/ right.hasJava)

\* cesu8::from_java_cesu8: plain UTF-8 is taken as it is, anything else must
\* be well-formed modified UTF-8 (no four-byte sequences)
from_java_cesu8(bytes) ==
    LET d == DecodeRange(bytes, 1, Len(bytes))
    IN  IF d.ok /\ ~(d.has4 /\ d.hasJava) THEN Some(d.s) ELSE None


-----------------------------------------------------------------------------
(* io.rs: NbtIoError and the results of reading *)

Err(type, a, b) == [type |-> type, a |-> a, b |-> b]
NoErr == Err("none", 0, 0)
\* NbtIoError::StdIo(e), e.kind() == ErrorKind::UnexpectedEof (read_exact)
StdIoEof == Err("StdIo", 0, 0)
InvalidTagId(id) == Err("InvalidTagId", id, 0)
TagTypeMismatch(expected, found) == Err("TagTypeMismatch", expected, found)
InvalidCesu8String == Err("InvalidCesu8String", 0, 0)

\* Ok(val) with the stream position after it, Err(err), or a panic
ROk(val, pos) == [res |-> "Ok", val |-> val, pos |-> pos, err |-> NoErr]
RErr(err, pos) == [res |-> "Err", val |-> <<>>, pos |-> pos, err |-> err]
RPanic(pos) == [res |-> "Panic", val |-> <<>>, pos |-> pos, err |-> NoErr]

\* read_exact of a reader that, like Read::read, is content with the bytes
\* that are left and leaves the rest of the zeroed buffer as it is
read_available(bytes, pos, n) ==
    IF Avail(bytes, pos, n) THEN ROk(Take(bytes, pos, n), pos + n)
    ELSE ROk(Take(bytes, pos, Len(bytes) - pos) \o [i \in 1..(n - (Len(bytes) - pos)) |-> 0],
             Len(bytes))
\* Read::read_exact of n bytes
read_exact(bytes, pos, n) ==
    IF Avail(bytes, pos, n) THEN ROk(Take(bytes, pos, n), pos + n)
    ELSE RErr(StdIoEof, pos)

\* `f(reader)?` followed by a conversion of the bytes read
OkByte(r) == IF r.res = "Ok" THEN ROk(r.val[1], r.pos) ELSE r
OkI8(r) == IF r.res = "Ok" THEN ROk(ToSigned(r.val[1], 8), r.pos) ELSE r
OkI16(r) == IF r.res = "Ok" THEN ROk(from_be_i16(r.val), r.pos) ELSE r
OkU16(r) == IF r.res = "Ok" THEN ROk(from_be_u16(r.val), r.pos) ELSE r
OkI32(r) == IF r.res = "Ok" THEN ROk(from_be_i32(r.val), r.pos) ELSE r

read_u8(bytes, pos) == OkByte(read_exact(bytes, pos, 1))
read_i8(bytes, pos) == OkI8(read_exact(bytes, pos, 1))
read_i16(bytes, pos) == OkI16(read_exact(bytes, pos, 2))
read_u16(bytes, pos) == OkU16(read_exact(bytes, pos, 2))
read_i32(bytes, pos) == OkI32(read_exact(bytes, pos, 4))
read_i64(bytes, pos) == read_exact(bytes, pos, 8)
read_f32(bytes, pos) == read_exact(bytes, pos, 4)
read_f64(bytes, pos) == read_exact(bytes, pos, 8)

\* raw::read_string: u16 length, that many bytes, modified UTF-8
ReadStringDecode(java_decoded, pos) ==
    IF java_decoded = None THEN RErr(InvalidCesu8String, pos)
    ELSE ROk(java_decoded[2], pos)
ReadStringBytes(body) ==
    IF body.res # "Ok" THEN body
    ELSE ReadStringDecode(from_java_cesu8(body.val), body.pos)
ReadStringLen(bytes, len) ==
    IF len.res # "Ok" THEN len
    ELSE ReadStringBytes(read_exact(bytes, len.pos, len.val))
read_string(bytes, pos) == ReadStringLen(bytes, read_u16(bytes, pos))

\* raw::write_string: the length is cast to u16, all the bytes are written
write_string(string) ==
    LET mod_utf8 == to_java_cesu8(string)
    IN  write_u16(Len(mod_utf8) % 65536) \o mod_utf8

\* raw::cast_bytes_to_unsigned / raw::cast_byte_buf_to_signed
cast_bytes_to_unsigned(value) == [i \in 1..Len(value) |-> ToUnsigned(value[i], 8)]
cast_byte_buf_to_signed(buf) == [i \in 1..Len(buf) |-> ToSigned(buf[i], 8)]

-----------------------------------------------------------------------------
(* io.rs: the reader *)

\* the loop `for _ in 0 .. len { array.push(raw::read_i32(reader)?) }`
ReadI32Elems(bytes, pos, len) ==
    IF len <= (Len(bytes) - pos) \div 4
    THEN ROk([i \in 1..len |-> from_be_i32(Take(bytes, pos + 4 * (i - 1), 4))],
             pos + 4 * len)
    ELSE RErr(StdIoEof, pos)

\* the loop `for _ in 0 .. len { array.push(raw::read_i64(reader)?) }`
ReadI64Elems(bytes, pos, len) ==
    IF len <= (Len(bytes) - pos) \div 8
    THEN ROk([i \in 1..len |-> Take(bytes, pos + 8 * (i - 1), 8)], pos + 8 * len)
    ELSE RErr(StdIoEof, pos)

RECURSIVE read_tag_body(_, _, _)
RECURSIVE ReadListElems(_, _, _, _, _)
RECURSIVE ReadCompoundEntries(_, _, _)

\* `NbtTag::X(raw::read_x(reader)?)`
OkTag(id, r) == IF r.res = "Ok" THEN ROk(<<id, r.val>>, r.pos) ELSE r

\* `raw::read_i32(reader)? as usize` followed by an allocation of that many
\* elements: a negative i32 becomes a length above isize::MAX, and vec![0; len],
\* Vec::with_capacity(len) and NbtList::with_capacity(len) panic (capacity overflow)
AllocPanics(len) == len < 0

\* 0x7 after the length: vec![0u8; len], read_exact, cast_byte_buf_to_signed
ByteArrayBody(array) ==
    IF array.res # "Ok" THEN array
    ELSE ROk(TagByteArray(cast_byte_buf_to_signed(array.val)), array.pos)
ReadByteArray(bytes, len) ==
    IF len.res # "Ok" THEN len
    ELSE IF AllocPanics(len.val) THEN RPanic(len.pos)
    ELSE ByteArrayBody(read_exact(bytes, len.pos, len.val))

\* 0xB and 0xC after the length: Vec::with_capacity(len) and the element loop
ReadIntArray(bytes, len) ==
    IF len.res # "Ok" THEN len
    ELSE IF AllocPanics(len.val) THEN RPanic(len.pos)
    ELSE OkTag(11, ReadI32Elems(bytes, len.pos, len.val))
ReadLongArray(bytes, len) ==
    IF len.res # "Ok" THEN len
    ELSE IF AllocPanics(len.val) THEN RPanic(len.pos)
    ELSE OkTag(12, ReadI64Elems(bytes, len.pos, len.val))

\* the loop `for _ in 0 .. len { list.push(read_tag_body(reader, type_id)?) }`
ListPush(bytes, type_id, remaining, list, e) ==
    IF e.res # "Ok" THEN e
    ELSE ReadListElems(bytes, e.pos, type_id, remaining - 1, Append(list, e.val))
ReadListElems(bytes, pos, type_id, remaining, list) ==
    IF remaining = 0 THEN ROk(TagList(list), pos)
    ELSE ListPush(bytes, type_id, remaining, list, read_tag_body(bytes, pos, type_id))

\* 0x9 after the element type and the length
\* a reader that refuses the element type 0x00 whatever the count
ReadListLenNoEnd(bytes, type_id, len) ==
    IF len.res # "Ok" THEN len
    ELSE IF type_id > 12 \/ type_id = 0 THEN RErr(InvalidTagId(type_id), len.pos)
    ELSE IF len.val = 0 THEN ROk(TagList(<<>>), len.pos)
    ELSE IF AllocPanics(len.val) THEN RPanic(len.pos)
    ELSE ReadListElems(bytes, len.pos, type_id, len.val, <<>>)
ReadListLen(bytes, type_id, len) ==
    IF len.res # "Ok" THEN len
    ELSE IF type_id > 12 \/ (type_id = 0 /\ len.val # 0)
         THEN RErr(InvalidTagId(type_id), len.pos)
    ELSE IF len.val = 0 THEN ROk(TagList(<<>>), len.pos)
    ELSE IF AllocPanics(len.val) THEN RPanic(len.pos)
    ELSE ReadListElems(bytes, len.pos, type_id, len.val, <<>>)
ReadList(bytes, type_id) ==
    IF type_id.res # "Ok" THEN type_id
    ELSE ReadListLen(bytes, type_id.val, read_i32(bytes, type_id.pos))

\* the loop `while tag_id != 0x0 { name; tag; insert; tag_id }`
EntryInsert(bytes, compound, name, tag) ==
    IF tag.res # "Ok" THEN tag
    ELSE ReadCompoundEntries(bytes, tag.pos, NbtCompoundInsert(compound, name, tag.val))
EntryName(bytes, compound, tag_id, name) ==
    IF name.res # "Ok" THEN name
    ELSE EntryInsert(bytes, compound, name.val, read_tag_body(bytes, name.pos, tag_id))
EntryId(bytes, compound, tag_id) ==
    IF tag_id.res # "Ok" THEN tag_id
    ELSE IF tag_id.val = 0 THEN ROk(TagCompound(compound), tag_id.pos)
    ELSE EntryName(bytes, compound, tag_id.val, read_string(bytes, tag_id.pos))
ReadCompoundEntries(bytes, pos, compound) == EntryId(bytes, compound, read_u8(bytes, pos))

read_tag_body(bytes, pos, id) ==
    CASE id = 1 -> OkTag(1, read_i8(bytes, pos))
      [] id = 2 -> OkTag(2, read_i16(bytes, pos))
      [] id = 3 -> OkTag(3, read_i32(bytes, pos))
      [] id = 4 -> OkTag(4, read_i64(bytes, pos))
      [] id = 5 -> OkTag(5, read_f32(bytes, pos))
      [] id = 6 -> OkTag(6, read_f64(bytes, pos))
      [] id = 7 -> ReadByteArray(bytes, read_i32(bytes, pos))
      [] id = 8 -> OkTag(8, read_string(bytes, pos))
      [] id = 9 -> ReadList(bytes, read_u8(bytes, pos))
      [] id = 10 -> ReadCompoundEntries(bytes, pos, NbtCompoundNew)
      [] id = 11 -> ReadIntArray(bytes, read_i32(bytes, pos))
      [] id = 12 -> ReadLongArray(bytes, read_i32(bytes, pos))
      [] OTHER -> RErr(InvalidTagId(id), pos)

\* io::read_nbt with Flavor::Uncompressed: Ok((compound, root_name))
RootBody(name, body) ==
    IF body.res # "Ok" THEN body ELSE ROk(<<Payload(body.val), name>>, body.pos)
RootName(bytes, name) ==
    IF name.res # "Ok" THEN name
    ELSE RootBody(name.val, read_tag_body(bytes, name.pos, 10))
\* a reader that reads the root name before it looks at the root tag ID
RootIdAfterName(bytes, root_id) ==
    IF root_id.res # "Ok" THEN root_id
    ELSE IF read_string(bytes, root_id.pos).res # "Ok" THEN read_string(bytes, root_id.pos)
    ELSE IF root_id.val # 10
         THEN RErr(TagTypeMismatch(10, root_id.val), read_string(bytes, root_id.pos).pos)
    ELSE RootName(bytes, read_string(bytes, root_id.pos))
RootId(bytes, root_id) ==
    IF root_id.res # "Ok" THEN root_id
    ELSE IF root_id.val # 10 THEN RErr(TagTypeMismatch(10, root_id.val), root_id.pos)
    ELSE RootName(bytes, read_string(bytes, root_id.pos))
read_nbt_uncompressed(bytes) == RootId(bytes, read_u8(bytes, 0))


-----------------------------------------------------------------------------
(* io.rs: the writer.  A write yields the bytes that reached the writer    *)
(* and the error, if any.  The entries of a compound are written in the    *)
(* iteration order of its HashMap, which is not determined: the writer is  *)
(* modelled by the set of its possible outcomes.                           *)

NonHomogenousList == Err("NonHomogenousList", 0, 0)

WOk(bytes) == [bytes |-> bytes, err |-> NoErr]
WErr(bytes, err) == [bytes |-> bytes, err |-> err]

\* `a?; b`: b runs only if a succeeded, and appends to what a wrote
Then(A, B) ==
    UNION {IF a.err # NoErr THEN {a}
           ELSE {[bytes |-> a.bytes \o b.bytes, err |-> b.err] : b \in B} : a \in A}

\* the loops `for &int in value.iter() { raw::write_i32(writer, int)? }`
RECURSIVE ConcatI32(_)
ConcatI32(value) ==
    IF value = <<>> THEN <<>> ELSE write_i32(Head(value)) \o ConcatI32(Tail(value))
RECURSIVE ConcatI64(_)
ConcatI64(value) ==
    IF value = <<>> THEN <<>> ELSE write_i64(Head(value)) \o ConcatI64(Tail(value))

RECURSIVE write_tag_body(_)
RECURSIVE WriteListElems(_, _, _)
RECURSIVE WriteEntries(_, _, _)

\* WriteListElems of a writer that writes the body of an element before it
\* compares the element's tag ID with the list's
WriteListElemsBodyFirst(value, i, type_id) ==
    IF i > Len(value) THEN {WOk(<<>>)}
    ELSE IF id_for_tag(value[i]) # type_id
         THEN Then(write_tag_body(value[i]), {WErr(<<>>, NonHomogenousList)})
    ELSE Then(write_tag_body(value[i]), WriteListElems(value, i + 1, type_id))
\* the loop over the elements of a non-empty list, from element i on
WriteListElems(value, i, type_id) ==
    IF i > Len(value) THEN {WOk(<<>>)}
    ELSE IF id_for_tag(value[i]) # type_id THEN {WErr(<<>>, NonHomogenousList)}
    ELSE Then(write_tag_body(value[i]), WriteListElems(value, i + 1, type_id))

\* the loop `for (name, tag) in value.inner()` in the given iteration order
WriteEntries(compound, order, i) ==
    IF i > Len(order) THEN {WOk(<<>>)}
    ELSE LET name == order[i]
             tag == compound[name]
         IN  Then(Then({WOk(write_u8(id_for_tag(tag)) \o write_string(name))},
                       write_tag_body(tag)),
                  WriteEntries(compound, order, i + 1))

write_tag_body(tag) ==
    LET value == Payload(tag)
    IN  CASE id_for_tag(tag) = 1 -> {WOk(write_i8(value))}
          [] id_for_tag(tag) = 2 -> {WOk(write_i16(value))}
          [] id_for_tag(tag) = 3 -> {WOk(write_i32(value))}
          [] id_for_tag(tag) = 4 -> {WOk(write_i64(value))}
          [] id_for_tag(tag) = 5 -> {WOk(write_f32(value))}
          [] id_for_tag(tag) = 6 -> {WOk(write_f64(value))}
          [] id_for_tag(tag) = 7 -> {WOk(cast_bytes_to_unsigned(value))}
          [] id_for_tag(tag) = 8 -> {WOk(write_string(value))}
          [] id_for_tag(tag) = 9 ->
                IF Len(value) = 0 THEN {WOk(<<TAG_End, 0, 0, 0, 0>>)}
                ELSE LET type_id == id_for_tag(value[1])
                     IN  Then({WOk(write_u8(type_id) \o write_i32(Len(value)))},
                              WriteListElems(value, 1, type_id))
          [] id_for_tag(tag) = 10 ->
                UNION {Then(WriteEntries(value, order, 1), {WOk(write_u8(TAG_End))})
                       : order \in Orders(DOMAIN value)}
          [] id_for_tag(tag) = 11 ->
                {WOk(write_i32(Len(value)) \o ConcatI32(value))}
          [] id_for_tag(tag) = 12 ->
                {WOk(write_i32(Len(value)) \o ConcatI64(value))}

\* io::write_nbt with Flavor::Uncompressed
write_nbt_uncompressed(name, compound) ==
    UNION {Then({WOk(write_u8(10)
                     \o write_string(IF name = None THEN <<>> ELSE name[2]))},
                Then(WriteEntries(compound, order, 1), {WOk(write_u8(TAG_End))}))
           : order \in Orders(DOMAIN compound)}


-----------------------------------------------------------------------------
(* serde/ser.rs: the serde serializer, driven by the Serialize             *)
(* implementations of NbtTag, NbtList and NbtCompound (tag.rs) and of      *)
(* Array (serde/mod.rs).  S is the TypeChecker the serializer was built    *)
(* with: "Homogenous" for Serializer, "Unchecked" for UncheckedSerializer. *)

\* TypeChecker::new
Unchecked == <<"Unchecked">>
HomogenousNew == <<"Homogenous", None>>
TypeCheckerNew(S) == IF S = "Unchecked" THEN Unchecked ELSE HomogenousNew

\* TypeChecker::verify: the result, and the checker with its cell updated
UncheckedVerify(checker, tag_id) == [err |-> NoErr, checker |-> checker]
HomogenousVerify(checker, tag_id) ==
    IF checker[2] = None
    THEN [err |-> NoErr, checker |-> <<"Homogenous", Some(tag_id)>>]
    ELSE IF checker[2][2] = tag_id
         THEN [err |-> NoErr, checker |-> checker]
         ELSE [err |-> NonHomogenousList, checker |-> checker]
verify(checker, tag_id) ==
    IF checker[1] = "Unchecked" THEN UncheckedVerify(checker, tag_id)
    ELSE HomogenousVerify(checker, tag_id)

\* the implementations of Prefix
NoPrefix == <<"NoPrefix">>
LengthPrefix(length) == <<"LengthPrefix", length>>
BorrowedPrefix(key) == <<"BorrowedPrefix", key>>

\* Prefix::write_raw and Prefix::write
PrefixWriteRaw(prefix) ==
    CASE prefix[1] = "NoPrefix" -> <<>>
      [] prefix[1] = "LengthPrefix" -> write_i32(prefix[2])
      [] prefix[1] = "BorrowedPrefix" -> write_string(prefix[2])
PrefixWrite(prefix, tag_id) ==
    IF prefix[1] = "NoPrefix" THEN <<>>
    ELSE write_u8(tag_id) \o PrefixWriteRaw(prefix)

\* the elements of an Array<Vec<i8>>, each written by serialize_i8
RECURSIVE ConcatI8(_)
ConcatI8(value) ==
    IF value = <<>> THEN <<>> ELSE write_i8(Head(value)) \o ConcatI8(Tail(value))

\* Array::serialize through SerializeArray: a list that resolves its tag ID
\* from its first element.  Both type checkers of its elements are
\* Unchecked; the first element writes the outer prefix with the array's
\* tag ID and then the length, an empty array is written as an empty list.
SerializeArray(outer_prefix, tag) ==
    IF Len(Payload(tag)) = 0
    THEN PrefixWrite(outer_prefix, 9) \o <<0, 0, 0, 0, 0>>
    ELSE PrefixWrite(outer_prefix, id_for_tag(tag))
         \o PrefixWriteRaw(LengthPrefix(Len(Payload(tag))))
         \o (CASE id_for_tag(tag) = 7 -> ConcatI8(Payload(tag))
               [] id_for_tag(tag) = 11 -> ConcatI32(Payload(tag))
               [] id_for_tag(tag) = 12 -> ConcatI64(Payload(tag)))

IsArray(tag) == id_for_tag(tag) \in {7, 11, 12}

RECURSIVE SerializeValue(_, _)
RECURSIVE SerializeListElements(_, _, _, _)
RECURSIVE SerializeEntries(_, _, _, _)

\* SerializeListElement: an Array goes to serialize_newtype_struct, which
\* hands the outer prefix and outer checker of a list element (NoPrefix and
\* Unchecked) to SerializeArray and drops the inner ones; every other tag
\* verifies its tag ID with the inner checker and writes the inner prefix.
ElementVerified(S, value, i, inner_prefix, v) ==
    IF v.err # NoErr THEN {WErr(<<>>, v.err)}
    ELSE Then(Then({WOk(PrefixWrite(inner_prefix, id_for_tag(value[i])))},
                   SerializeValue(S, value[i])),
              SerializeListElements(S, value, i + 1, v.checker))
SerializeListElement(S, value, i, inner_prefix, inner_type_checker) ==
    IF IsArray(value[i])
    THEN Then({WOk(SerializeArray(NoPrefix, value[i]))},
              SerializeListElements(S, value, i + 1, inner_type_checker))
    ELSE ElementVerified(S, value, i, inner_prefix,
                         verify(inner_type_checker, id_for_tag(value[i])))

\* SerializeList::serialize_element from element i on: `self.length.take()`
\* gives the first element the LengthPrefix and the others NoPrefix
SerializeListElements(S, value, i, inner_type_checker) ==
    IF i > Len(value) THEN {WOk(<<>>)}
    ELSE SerializeListElement(S, value, i,
                              IF i = 1 THEN LengthPrefix(Len(value)) ELSE NoPrefix,
                              inner_type_checker)

\* SerializeCompound::serialize_entry in the given iteration order
SerializeCompoundEntry(S, key, tag) ==
    IF IsArray(tag) THEN {WOk(SerializeArray(BorrowedPrefix(key), tag))}
    ELSE Then({WOk(PrefixWrite(BorrowedPrefix(key), id_for_tag(tag)))},
              SerializeValue(S, tag))
SerializeEntries(S, compound, order, i) ==
    IF i > Len(order) THEN {WOk(<<>>)}
    ELSE Then(SerializeCompoundEntry(S, order[i], compound[order[i]]),
              SerializeEntries(S, compound, order, i + 1))

\* SerializeCompound: the entries, then SerializeMap::end
SerializeCompound(S, compound) ==
    UNION {Then(SerializeEntries(S, compound, order, 1), {WOk(write_u8(TAG_End))})
           : order \in Orders(DOMAIN compound)}

\* what a tag other than an Array writes after its tag ID and prefix
SerializeValue(S, tag) ==
    CASE id_for_tag(tag) = 1 -> {WOk(write_i8(Payload(tag)))}
      [] id_for_tag(tag) = 2 -> {WOk(write_i16(Payload(tag)))}
      [] id_for_tag(tag) = 3 -> {WOk(write_i32(Payload(tag)))}
      [] id_for_tag(tag) = 4 -> {WOk(write_i64(Payload(tag)))}
      [] id_for_tag(tag) = 5 -> {WOk(write_f32(Payload(tag)))}
      [] id_for_tag(tag) = 6 -> {WOk(write_f64(Payload(tag)))}
      [] id_for_tag(tag) = 8 -> {WOk(write_string(Payload(tag)))}
      [] id_for_tag(tag) = 9 ->
            IF Len(Payload(tag)) = 0 THEN {WOk(<<0, 0, 0, 0, 0>>)}
            ELSE SerializeListElements(S, Payload(tag), 1, TypeCheckerNew(S))
      [] id_for_tag(tag) = 10 -> SerializeCompound(S, Payload(tag))

\* serde::serialize_into / serialize_into_unchecked with Flavor::Uncompressed
serialize_into(S, name, compound) ==
    Then({WOk(PrefixWrite(BorrowedPrefix(IF name = None THEN <<>> ELSE name[2]), 10))},
         SerializeCompound(S, compound))


-----------------------------------------------------------------------------
(* snbt.rs: strings.  A &str is a sequence of characters; the indices the  *)
(* lexer and the errors carry are byte indices into its UTF-8 encoding.    *)
(* In the SNBT model a Long holds its value and a Float or Double the      *)
(* decimal <<m, e>> (m * 10^e, m not a multiple of 10) it displays as.     *)

LCURLY == 123
RCURLY == 125
LSQUARE == 91
RSQUARE == 93
COMMA == 44
COLON == 58
SEMICOLON == 59
SQUOTE == 39
DQUOTE == 34
BACKSLASH == 92
MINUS == 45
DOT == 46
SPACE == 32
NEWLINE == 10

\* char::len_utf8
len_utf8(ch) == IF ch < 128 THEN 1 ELSE IF ch < 2048 THEN 2 ELSE IF ch < 65536 THEN 3 ELSE 4

\* str::len: the number of bytes
RECURSIVE StrLen(_)
StrLen(s) == IF s = <<>> THEN 0 ELSE len_utf8(Head(s)) + StrLen(Tail(s))

\* str::char_indices: the byte index of the character at position p
CharIndex(s, p) == StrLen(SubSeq(s, 1, p - 1))
\* str::is_char_boundary
is_char_boundary(s, index) == \E p \in 1..(Len(s) + 1) : CharIndex(s, p) = index
\* the position of the character that starts at a boundary
CharPos(s, index) == CHOOSE p \in 1..(Len(s) + 1) : CharIndex(s, p) = index

\* the outcome of slicing a str by byte indices: a str, or a panic when an
\* index is out of range or inside a character
StrOk(s) == [ok |-> TRUE, s |-> s]
StrPanic == [ok |-> FALSE, s |-> <<>>]
StrSlice(s, from, to) ==
    IF from <= to /\ is_char_boundary(s, from) /\ is_char_boundary(s, to)
    THEN StrOk(SubSeq(s, CharPos(s, from), CharPos(s, to) - 1))
    ELSE StrPanic

\* char::is_ascii_whitespace: space, tab, line feed, form feed, carriage return
is_ascii_whitespace(ch) == ch \in {32, 9, 10, 12, 13}
IsAsciiDigit(ch) == ch \in 48..57
\* char::is_numeric, on the characters the model feeds it: the ASCII digits,
\* superscript two (No) and ARABIC-INDIC DIGIT ONE (Nd)
is_numeric(ch) == IsAsciiDigit(ch) \/ ch \in {178, 1633}
\* char::is_digit(16) and the digit's value
is_digit16(ch) == ch \in 48..57 \/ ch \in 97..102 \/ ch \in 65..70
HexValue(ch) == IF ch <= 57 THEN ch - 48 ELSE IF ch >= 97 THEN ch - 87 ELSE ch - 55

Min(a, b) == IF a <= b THEN a ELSE b

\* SnbtError::segment.  before_chars is the number of characters before
\* index; `input[.. index]`, `input[index ..]` and `input[start .. end]`
\* panic off a character boundary and past the end of the input.
SegmentStart(input, before_chars, skip) ==
    IF before_chars >= skip + 1 THEN CharIndex(input, before_chars - skip) ELSE 0
SegmentEnd(input, index, before_chars, skip) ==
    IF Len(input) - before_chars >= skip + 1
    THEN CharIndex(input, before_chars + skip + 1)
    ELSE index + StrLen(input)
segment(input, index, char_width, before, after) ==
    IF ~is_char_boundary(input, index) THEN StrPanic
    ELSE StrSlice(input,
                  SegmentStart(input, CharPos(input, index) - 1,
                               IF before = 0 THEN 0 ELSE before - 1),
                  SegmentEnd(input, index, CharPos(input, index) - 1,
                             Min(char_width, 20) + after))

\* the lexer; NoLexer stands for the lexer of a parse that has failed
LexerNew == [pos |-> 1, index |-> 0, peeked |-> None]
NoLexer == [pos |-> 0, index |-> 0, peeked |-> None]

\* SnbtError { segment, error: ParserErrorType }
NoSnbtError == [type |-> "none", index |-> None, expected |-> "", segment |-> <<>>]
\* Results of the lexer and parser: Ok(val), Err(err), a panic, and "None"
\* for the Option::None of Lexer::next at the end of the input
POk(val, lx) == [res |-> "Ok", val |-> val, lx |-> lx, err |-> NoSnbtError]
PNone(lx) == [res |-> "None", val |-> <<>>, lx |-> lx, err |-> NoSnbtError]
PPanic == [res |-> "Panic", val |-> <<>>, lx |-> NoLexer, err |-> NoSnbtError]
PErr(type, index, expected, seg) ==
    IF ~seg.ok THEN PPanic
    ELSE [res |-> "Err", val |-> <<>>, lx |-> NoLexer,
          err |-> [type |-> type, index |-> index, expected |-> expected,
                   segment |-> seg.s]]

unmatched_quote(input, index) ==
    PErr("UnmatchedQuote", Some(index), "", segment(input, index, 1, 7, 7))
unknown_escape_sequence(input, index, char_width) ==
    PErr("UnknownEscapeSequence", None, "", segment(input, index, char_width, 0, 0))
invalid_number(input, index, char_width) ==
    PErr("InvalidNumber", None, "", segment(input, index, char_width, 0, 0))
unexpected_token_at(input, index, char_width, expected) ==
    PErr("UnexpectedToken", Some(index), expected, segment(input, index, char_width, 15, 0))
unexpected_eos(expected) == PErr("UnexpectedEOS", None, expected, StrOk(<<>>))
\* token is a result of the lexer: Ok(TokenData) or None
unexpected_token(input, token, expected) ==
    IF token.res = "Ok"
    THEN unexpected_token_at(input, token.val.index, token.val.char_width, expected)
    ELSE unexpected_eos(expected)
trailing_comma(input, index) ==
    PErr("TrailingComma", Some(index), "", segment(input, index, 1, 15, 1))
unmatched_brace(input, index) ==
    PErr("UnmatchedBrace", Some(index), "", segment(input, index, 1, 0, 15))
non_homogenous_list(input, index, char_width) ==
    PErr("NonHomogenousList", Some(index), "", segment(input, index, char_width, 15, 0))

-----------------------------------------------------------------------------
(* snbt.rs: numbers.  str::parse::<i64>, str::parse::<f64> and Display of  *)
(* integers and floats, digit by digit.  An i64 is kept as its sign and    *)
(* its magnitude in four limbs of 16 bits, most significant first, so that *)
(* literals up to and past the range of i64 are parsed exactly.  The float *)
(* literals of the model, and the integer literals with a suffix l, f or d,*)
(* have at most nine digits, so that every decimal is the shortest one of  *)
(* its f32 and of its f64.                                                 *)

RECURSIVE DigitsValue(_)
DigitsValue(s) ==
    IF s = <<>> THEN 0
    ELSE DigitsValue(SubSeq(s, 1, Len(s) - 1)) * 10 + (s[Len(s)] - 48)
AllDigits(s) == \A i \in 1..Len(s) : IsAsciiDigit(s[i])

\* an i64 value; zero has no sign
Limb == Pow2(16)
ZeroMag == <<0, 0, 0, 0>>
I64Value(neg, mag) == [neg |-> neg /\ mag # ZeroMag, mag |-> mag]
\* i64::MIN ..= i64::MAX
InI64Range(neg, mag) == mag[1] < 32768 \/ (neg /\ mag = <<32768, 0, 0, 0>>)
\* checked_mul(10) followed by checked_add(digit), or checked_sub(digit) for
\* a negative literal: None on overflow
CheckedMulAdd(neg, mag, digit) ==
    LET l0 == mag[4] * 10 + digit
        l1 == mag[3] * 10 + (l0 \div Limb)
        l2 == mag[2] * 10 + (l1 \div Limb)
        l3 == mag[1] * 10 + (l2 \div Limb)
        next == <<l3 % Limb, l2 % Limb, l1 % Limb, l0 % Limb>>
    IN  IF l3 < Limb /\ InI64Range(neg, next) THEN Some(next) ELSE None
RECURSIVE ParseDigits(_, _, _, _)
ParseDigits(s, i, neg, mag) ==
    IF i > Len(s) THEN Some(I64Value(neg, mag))
    ELSE IF CheckedMulAdd(neg, mag, s[i] - 48) = None THEN None
    ELSE ParseDigits(s, i + 1, neg, CheckedMulAdd(neg, mag, s[i] - 48)[2])

\* the low 32 bits of the two's complement of an i64, in two limbs
Low32(value) ==
    IF ~value.neg THEN <<value.mag[3], value.mag[4]>>
    ELSE IF value.mag[4] = 0 THEN <<(Limb - value.mag[3]) % Limb, 0>>
    ELSE <<Limb - 1 - value.mag[3], Limb - value.mag[4]>>
\* `value as i8`, `value as u8` read as i8, `value as i16`, `value as i32`
as_i8(value) == ToSigned(Low32(value)[2] % 256, 8)
as_i16(value) == ToSigned(Low32(value)[2], 16)
as_i32(value) ==
    IF Low32(value)[1] >= 32768 THEN (Low32(value)[1] - Limb) * Limb + Low32(value)[2]
    ELSE Low32(value)[1] * Limb + Low32(value)[2]
\* an i64 as the payload of a tag: the integer when it is in the range of
\* i32, the limbs otherwise
FitsI32(value) ==
    /\ value.mag[1] = 0
    /\ value.mag[2] = 0
    /\ (value.mag[3] < 32768 \/ (value.neg /\ value.mag[3] = 32768 /\ value.mag[4] = 0))
as_i64(value) == IF FitsI32(value) THEN as_i32(value) ELSE value

\* <i64 as FromStr>::from_str: an optional sign, then one digit or more;
\* an error on overflow
ParseI64(s) ==
    IF s = <<>> THEN None
    ELSE IF s[1] \in {43, MINUS}
         THEN IF Len(s) > 1 /\ AllDigits(Tail(s))
              THEN ParseDigits(s, 2, s[1] = MINUS, ZeroMag)
              ELSE None
    ELSE IF AllDigits(s) THEN ParseDigits(s, 1, FALSE, ZeroMag) ELSE None

\* the decimal m * 10^e in normal form
RECURSIVE Normalize(_, _)
Normalize(m, e) ==
    IF m = 0 THEN <<0, 0>>
    ELSE IF m % 10 = 0 THEN Normalize(m \div 10, e + 1)
    ELSE <<m, e>>

RECURSIVE EndOfDigits(_, _)
EndOfDigits(s, i) ==
    IF i <= Len(s) /\ IsAsciiDigit(s[i]) THEN EndOfDigits(s, i + 1) ELSE i

\* <f64 as FromStr>::from_str on a string that holds a '.': an optional
\* sign, digits, a '.', digits (one digit at least before or after the
\* '.'), and an optional exponent e or E with an optional sign and one digit
\* or more
F64Value(s, digits, e) ==
    Some(Normalize(IF s[1] = MINUS THEN 0 - DigitsValue(digits) ELSE DigitsValue(digits), e))
F64ExpDigits(s, digits, fraclen, exponent) ==
    IF exponent = None THEN None ELSE F64Value(s, digits, as_i32(exponent[2]) - fraclen)
F64Exp(s, digits, fraclen, i) ==
    IF digits = <<>> THEN None
    ELSE IF i > Len(s) THEN F64Value(s, digits, 0 - fraclen)
    ELSE IF s[i] \in {101, 69}
         THEN F64ExpDigits(s, digits, fraclen, ParseI64(SubSeq(s, i + 1, Len(s))))
    ELSE None
F64Frac(s, from, dot, end) ==
    F64Exp(s, SubSeq(s, from, dot - 1) \o SubSeq(s, dot + 1, end - 1), end - (dot + 1), end)
F64Int(s, from, dot) ==
    IF dot <= Len(s) /\ s[dot] = DOT THEN F64Frac(s, from, dot, EndOfDigits(s, dot + 1))
    ELSE F64Exp(s, SubSeq(s, from, dot - 1), 0, dot)
ParseF64(s) ==
    IF s = <<>> THEN None
    ELSE IF s[1] \in {43, MINUS} THEN F64Int(s, 2, EndOfDigits(s, 2))
    ELSE F64Int(s, 1, EndOfDigits(s, 1))

\* `value as f64` of an integer
IntAsF64(value) == Normalize(as_i64(value), 0)

\* Display of an integer
RECURSIVE DigitsOf(_)
DigitsOf(n) == IF n < 10 THEN <<48 + n>> ELSE Append(DigitsOf(n \div 10), 48 + (n % 10))
DisplayInt(n) == IF n < 0 THEN <<MINUS>> \o DigitsOf(0 - n) ELSE DigitsOf(n)

\* Display of a float: the shortest decimal, never with an exponent
Zeros(n) == [i \in 1..n |-> 48]
DisplayDecimal(digits, e) ==
    IF e >= 0 THEN digits \o Zeros(e)
    ELSE IF Len(digits) > 0 - e
         THEN SubSeq(digits, 1, Len(digits) + e) \o <<DOT>>
              \o SubSeq(digits, Len(digits) + e + 1, Len(digits))
    ELSE <<48, DOT>> \o Zeros((0 - e) - Len(digits)) \o digits
DisplayFloat(value) ==
    IF value[1] < 0 THEN <<MINUS>> \o DisplayDecimal(DigitsOf(0 - value[1]), value[2])
    ELSE DisplayDecimal(DigitsOf(value[1]), value[2])

-----------------------------------------------------------------------------
(* snbt.rs: the lexer.  lx.pos is the position of the next character of    *)
(* `chars`, lx.index the field `index`, lx.peeked the field `peeked`.  A    *)
(* token is <<kind>>, <<"String", value, quoted>> or <<kind, value>>; a     *)
(* delimiter `fn(char) -> bool` is the set of characters it accepts.       *)

TokenData(token, index, char_width) ==
    [token |-> token, index |-> index, char_width |-> char_width]
TokenString(value, quoted) == <<"String", value, quoted>>
Kind(td) == td.token[1]

\* the delimiter of slurp_token when the caller passes None
DefaultDelimiter == {LCURLY, RCURLY, LSQUARE, RSQUARE, COMMA, SEMICOLON}
\* IsDelimiter of a lexer that also ends an unquoted token at whitespace
IsDelimiterOrWhitespace(delimiter, ch) ==
    \/ is_ascii_whitespace(ch)
    \/ IF delimiter = None THEN ch \in DefaultDelimiter ELSE ch \in delimiter[2]
IsDelimiter(delimiter, ch) ==
    IF delimiter = None THEN ch \in DefaultDelimiter ELSE ch \in delimiter[2]

\* Lexer::next_ch, on a lexer that has a character left
next_ch(raw, lx) ==
    [lx EXCEPT !.pos = @ + 1,
               !.index = CharIndex(raw, lx.pos) + len_utf8(raw[lx.pos])]
AtEnd(raw, lx) == lx.pos > Len(raw)

\* IntegerToken without the arm of the suffix s: the literal becomes an Int
IntegerTokenShortAsInt(last, value) ==
    CASE last \in {98, 66} -> <<"Byte", value>>
      [] last \in {108, 76} -> <<"Long", value>>
      [] last \in {102, 70} -> <<"Float", IntAsF64(value)>>
      [] last \in {100, 68} -> <<"Double", IntAsF64(value)>>
      [] OTHER -> <<"Int", value>>
\* Token::Byte(value) .. Token::Int(value) by the suffix of an integer literal
IntegerToken(last, value) ==
    CASE last \in {98, 66} -> <<"Byte", value>>
      [] last \in {115, 83} -> <<"Short", value>>
      [] last \in {108, 76} -> <<"Long", value>>
      [] last \in {102, 70} -> <<"Float", IntAsF64(value)>>
      [] last \in {100, 68} -> <<"Double", IntAsF64(value)>>
      [] OTHER -> <<"Int", value>>
IntegerSuffixes == {98, 66, 115, 83, 108, 76, 102, 70, 100, 68}
FloatSuffixes == {102, 70, 100, 68}
Last(s) == s[Len(s)]
Front(s) == SubSeq(s, 1, Len(s) - 1)

\* Lexer::parse_token, the branches of a token that starts like a number
NumberToken(raw, lx, start, char_width, token_string, value, is_float) ==
    IF value = None THEN invalid_number(raw, start, char_width)
    ELSE IF is_float
         THEN POk(TokenData(IF Last(token_string) \in {102, 70}
                            THEN <<"Float", value[2]>> ELSE <<"Double", value[2]>>,
                            start, char_width), lx)
    ELSE POk(TokenData(IntegerToken(Last(token_string), value[2]), start, char_width), lx)
DecimalValue(token_string) ==
    IF Last(token_string) \in FloatSuffixes THEN ParseF64(Front(token_string))
    ELSE IF is_numeric(Last(token_string)) THEN ParseF64(token_string)
    ELSE None
IntegerValue(token_string) ==
    IF Last(token_string) \in IntegerSuffixes THEN ParseI64(Front(token_string))
    ELSE IF is_numeric(Last(token_string)) THEN ParseI64(token_string)
    ELSE None

\* Lexer::parse_token; buffer is raw_token_buffer, the outcome of a slice
parse_token(raw, lx, start, char_width, quoted, buffer) ==
    IF ~buffer.ok THEN PPanic
    ELSE IF buffer.s = <<>>
         THEN POk(TokenData(TokenString(<<>>, quoted), start, 2), lx)
    ELSE IF ~(buffer.s[1] = MINUS \/ IsAsciiDigit(buffer.s[1]))
         THEN POk(TokenData(TokenString(buffer.s, quoted), start, char_width), lx)
    ELSE IF \E i \in 1..Len(buffer.s) : buffer.s[i] = DOT
         THEN NumberToken(raw, lx, start, char_width, buffer.s, DecimalValue(buffer.s), TRUE)
    ELSE NumberToken(raw, lx, start, char_width, buffer.s, IntegerValue(buffer.s), FALSE)

\* slurp_token, State::Unquoted.  st holds the locals of the loop; quotes is
\* the bit set 0b001 (in '), 0b010 (in "), 0b100 (after a backslash).
UnquotedEnd(raw, lx, st) ==
    parse_token(raw, lx, st.start, st.char_width, FALSE,
                StrSlice(raw, st.start, st.last_nws_char_pos + len_utf8(st.last_nws_char)))
CountBraces(st, ch) ==
    CASE ch = LCURLY -> [st EXCEPT !.curly_count = @ + 1]
      [] ch = RCURLY -> [st EXCEPT !.curly_count = IF @ > 0 THEN @ - 1 ELSE @]
      [] ch = LSQUARE -> [st EXCEPT !.square_count = @ + 1]
      [] ch = RSQUARE -> [st EXCEPT !.square_count = IF @ > 0 THEN @ - 1 ELSE @]
      [] OTHER -> st
UnquotedAccept(st, ch, index) ==
    IF is_ascii_whitespace(ch) THEN [st EXCEPT !.quotes = @ % 4]
    ELSE [st EXCEPT !.quotes = @ % 4, !.char_width = @ + 1,
                    !.last_nws_char = ch, !.last_nws_char_pos = index]
RECURSIVE SlurpUnquoted(_, _, _, _)
UnquotedChar(raw, lx, delimiter, st, ch) ==
    CASE ch = BACKSLASH ->
            SlurpUnquoted(raw, next_ch(raw, lx), delimiter,
                          [st EXCEPT !.quotes = IF @ < 4 THEN @ + 4 ELSE @])
      [] ch = SQUOTE ->
            SlurpUnquoted(raw, next_ch(raw, lx), delimiter,
                          [st EXCEPT !.quotes = CASE @ = 0 -> 1 [] @ = 1 -> 0 [] OTHER -> @ % 4])
      [] ch = DQUOTE ->
            SlurpUnquoted(raw, next_ch(raw, lx), delimiter,
                          [st EXCEPT !.quotes = CASE @ = 0 -> 2 [] @ = 2 -> 0 [] OTHER -> @ % 4])
      [] OTHER ->
            IF st.curly_count + st.square_count + (st.quotes % 4) = 0
               /\ IsDelimiter(delimiter, ch)
            THEN UnquotedEnd(raw, lx, st)
            ELSE SlurpUnquoted(raw, next_ch(raw, lx), delimiter,
                               UnquotedAccept(CountBraces(st, ch), ch, lx.index))
SlurpUnquoted(raw, lx, delimiter, st) ==
    IF AtEnd(raw, lx) THEN UnquotedEnd(raw, lx, st)
    ELSE UnquotedChar(raw, lx, delimiter, st, raw[lx.pos])

\* slurp_token, State::InSingleQuotes | State::InDoubleQuotes.  quote is the
\* opening quote, buffer is raw_token_buffer.
RECURSIVE SlurpQuoted(_, _, _, _, _, _)
\* the escape \uXXXX: n digits read so far, value their number.  The error
\* handed to ok_or is built before the character is looked at.
UnicodeDone(raw, lx, start, quote, char_width, buffer, value, error) ==
    IF error.res = "Panic" THEN error
    ELSE IF value \in 55296..57343 THEN error
    ELSE SlurpQuoted(raw, lx, start, quote, char_width, Append(buffer, value))
RECURSIVE UnicodeEscape(_, _, _, _, _, _, _, _)
UnicodeEscape(raw, lx, start, quote, char_width, buffer, n, value) ==
    IF n = 4
    THEN UnicodeDone(raw, lx, start, quote, char_width, buffer, value,
                     unknown_escape_sequence(raw, lx.index - 6, 6))
    ELSE IF AtEnd(raw, lx) THEN unexpected_eos("four-character hex unicode value")
    ELSE IF ~is_digit16(raw[lx.pos])
         THEN unexpected_token_at(raw, next_ch(raw, lx).index - len_utf8(raw[lx.pos]), 1,
                                  "a hexadecimal digit")
    ELSE UnicodeEscape(raw, next_ch(raw, lx), start, quote, char_width, buffer,
                       n + 1, value * 16 + HexValue(raw[lx.pos]))
\* the character after a backslash; lx is the lexer after that character
EscapeChar(raw, lx, start, quote, char_width, buffer, ch) ==
    CASE ch \in {SQUOTE, DQUOTE, BACKSLASH} ->
            SlurpQuoted(raw, lx, start, quote, char_width, Append(buffer, ch))
      [] ch = 110 -> SlurpQuoted(raw, lx, start, quote, char_width, Append(buffer, 10))
      [] ch = 114 -> SlurpQuoted(raw, lx, start, quote, char_width, Append(buffer, 13))
      [] ch = 116 -> SlurpQuoted(raw, lx, start, quote, char_width, Append(buffer, 9))
      [] ch = 117 -> UnicodeEscape(raw, lx, start, quote, char_width + 4, buffer, 0, 0)
      [] OTHER -> unknown_escape_sequence(raw, lx.index - 2, 2)
\* a backslash was read; borrowed is the buffer, set from the input when it
\* was empty
Escape(raw, lx, start, quote, char_width, borrowed) ==
    IF ~borrowed.ok THEN PPanic
    ELSE IF AtEnd(raw, lx) THEN unmatched_quote(raw, start)
    ELSE EscapeChar(raw, next_ch(raw, lx), start, quote, char_width, borrowed.s, raw[lx.pos])
\* the character read by the loop; lx is the lexer after that character.
\* A character that is neither a backslash nor the closing quote is read
\* and not added to the buffer.
QuotedChar(raw, lx, start, quote, char_width, buffer, ch) ==
    CASE ch = BACKSLASH ->
            Escape(raw, lx, start, quote, char_width + 1,
                   IF buffer = <<>> THEN StrSlice(raw, start + 1, lx.index - 1)
                   ELSE StrOk(buffer))
      [] ch = quote ->
            parse_token(raw, lx, start, char_width, TRUE,
                        IF buffer = <<>> THEN StrSlice(raw, start + 1, lx.index - 1)
                        ELSE StrOk(buffer))
      [] OTHER -> SlurpQuoted(raw, lx, start, quote, char_width, buffer)
SlurpQuoted(raw, lx, start, quote, char_width, buffer) ==
    IF AtEnd(raw, lx) THEN unmatched_quote(raw, start)
    ELSE QuotedChar(raw, next_ch(raw, lx), start, quote, char_width + 1, buffer, raw[lx.pos])

\* Lexer::slurp_token, called on a lexer that has a character left
slurp_token(raw, lx, delimiter) ==
    IF raw[lx.pos] \in {SQUOTE, DQUOTE}
    THEN SlurpQuoted(raw, next_ch(raw, lx), lx.index, raw[lx.pos], 1, <<>>)
    ELSE SlurpUnquoted(raw, next_ch(raw, lx), delimiter,
                       [start |-> lx.index, char_width |-> 1,
                        last_nws_char |-> raw[lx.pos], last_nws_char_pos |-> lx.index,
                        curly_count |-> 0, square_count |-> 0, quotes |-> 0])

\* the single-character tokens of Lexer::next
SingleCharToken(ch) ==
    CASE ch = LCURLY -> <<"OpenCurly">>
      [] ch = RCURLY -> <<"ClosedCurly">>
      [] ch = LSQUARE -> <<"OpenSquare">>
      [] ch = RSQUARE -> <<"ClosedSquare">>
      [] ch = COMMA -> <<"Comma">>
      [] ch = COLON -> <<"Colon">>
      [] ch = SEMICOLON -> <<"Semicolon">>
IsSingleCharToken(ch) ==
    ch \in {LCURLY, RCURLY, LSQUARE, RSQUARE, COMMA, COLON, SEMICOLON}

RECURSIVE SkipWhitespace(_, _)
SkipWhitespace(raw, lx) ==
    IF ~AtEnd(raw, lx) /\ is_ascii_whitespace(raw[lx.pos])
    THEN SkipWhitespace(raw, next_ch(raw, lx))
    ELSE lx
\* Lexer::next after the whitespace
NextToken(raw, lx, delimiter) ==
    IF AtEnd(raw, lx) THEN PNone(lx)
    ELSE IF IsSingleCharToken(raw[lx.pos])
         THEN POk(TokenData(SingleCharToken(raw[lx.pos]), lx.index, 1), next_ch(raw, lx))
    ELSE slurp_token(raw, lx, delimiter)
\* the item `peeked` holds, handed out with the lexer it leaves behind
Peeked(lx, after) == [lx.peeked[2] EXCEPT !.lx = after]
\* LexerNext of a lexer that hands out the item in `peeked` and leaves it there
LexerNextKeepPeeked(raw, lx, delimiter) ==
    IF lx.peeked # None THEN Peeked(lx, lx)
    ELSE NextToken(raw, SkipWhitespace(raw, lx), delimiter)
\* Lexer::next
LexerNext(raw, lx, delimiter) ==
    IF lx.peeked # None THEN Peeked(lx, [lx EXCEPT !.peeked = None])
    ELSE NextToken(raw, SkipWhitespace(raw, lx), delimiter)
\* Lexer::peek: the token, and in its lx the lexer that holds it in `peeked`
PeekStore(r) ==
    IF r.res = "Panic" THEN r
    ELSE [r EXCEPT !.lx = [r.lx EXCEPT !.peeked = Some([r EXCEPT !.lx = NoLexer])]]
LexerPeek(raw, lx, delimiter) ==
    IF lx.peeked # None THEN Peeked(lx, lx)
    ELSE PeekStore(LexerNext(raw, lx, delimiter))

\* Token::as_expectation
as_expectation(kind) ==
    CASE kind = "OpenCurly" -> "'{'"
      [] kind = "ClosedCurly" -> "'}'"
      [] kind = "OpenSquare" -> "'['"
      [] kind = "ClosedSquare" -> "']'"
      [] kind = "Comma" -> "','"
      [] kind = "Colon" -> "':'"
      [] kind = "Semicolon" -> "';'"
      [] OTHER -> "value"

\* Lexer::assert_next
AssertNext(raw, kind, r) ==
    CASE r.res = "Ok" ->
            IF Kind(r.val) = kind THEN r
            ELSE unexpected_token(raw, r, as_expectation(kind))
      [] r.res = "None" -> unexpected_eos(as_expectation(kind))
      [] OTHER -> r
assert_next(raw, lx, kind) == AssertNext(raw, kind, LexerNext(raw, lx, None))

-----------------------------------------------------------------------------
(* snbt.rs: the parser.  Every function takes the input and the lexer and  *)
(* gives back its value with the lexer it leaves, or the error (`?`).      *)

\* Token::into_tag; `as i8`, `as i16`, `as i32` truncate
IsValueToken(token) ==
    token[1] \in {"String", "Byte", "Short", "Int", "Long", "Float", "Double"}
into_tag(token) ==
    CASE token[1] = "String" -> TagString(token[2])
      [] token[1] = "Byte" -> TagByte(as_i8(token[2]))
      [] token[1] = "Short" -> TagShort(as_i16(token[2]))
      [] token[1] = "Int" -> TagInt(as_i32(token[2]))
      [] token[1] = "Long" -> TagLong(as_i64(token[2]))
      [] token[1] = "Float" -> TagFloat(token[2])
      [] token[1] = "Double" -> TagDouble(token[2])

\* From<Token> for Result<u8 | i32 | i64, Token>, and NbtTag::from(Vec<T>)
IsIntegerToken(token) == token[1] \in {"Byte", "Short", "Int", "Long"}
into_value(type, token) ==
    CASE type = "u8" -> as_i8(token[2])
      [] type = "i32" -> as_i32(token[2])
      [] type = "i64" -> as_i64(token[2])
PrimListTag(type, list) ==
    CASE type = "u8" -> TagByteArray(list)
      [] type = "i32" -> TagIntArray(list)
      [] type = "i64" -> TagLongArray(list)

RECURSIVE parse_value(_, _)
RECURSIVE parse_prim_list(_, _, _, _, _, _)
RECURSIVE parse_tag_list(_, _, _)
RECURSIVE parse_compound_tag(_, _, _, _, _)

\* parse_next_value
parse_next_value(raw, lx, delimiter) == parse_value(raw, LexerNext(raw, lx, delimiter))

\* `.map(Into::into)` of a list or compound result
AsTag(id, r) == IF r.res = "Ok" THEN [r EXCEPT !.val = <<id, @>>] ELSE r

\* parse_prim_list, one turn of the loop on the token r
PrimListValue(raw, open_square, type, list, td, lx) ==
    IF IsIntegerToken(td.token)
    THEN parse_prim_list(raw, lx, open_square, type,
                         Append(list, into_value(type, td.token)), None)
    ELSE non_homogenous_list(raw, td.index, td.char_width)
PrimListStep(raw, open_square, type, list, comma, r) ==
    CASE r.res \in {"Err", "Panic"} -> r
      [] r.res = "None" -> unmatched_brace(raw, open_square.index)
      [] r.res = "Ok" /\ Kind(r.val) = "ClosedSquare" ->
            IF comma = None \/ comma = Some(0) THEN POk(PrimListTag(type, list), r.lx)
            ELSE trailing_comma(raw, comma[2])
      [] r.res = "Ok" /\ Kind(r.val) = "Comma" ->
            parse_prim_list(raw, r.lx, open_square, type, list, Some(r.val.index))
      [] OTHER ->
            IF comma # None THEN PrimListValue(raw, open_square, type, list, r.val, r.lx)
            ELSE unexpected_token(raw, r, as_expectation("Comma"))
parse_prim_list(raw, lx, open_square, type, list, comma) ==
    PrimListStep(raw, open_square, type, list, comma,
                 LexerNext(raw, lx, Some({COMMA, RSQUARE})))

\* parse_tag_list, one turn of the loop on the token r
TagListPush(raw, list, index, char_width, element) ==
    IF element.res # "Ok" THEN element
    ELSE IF id_for_tag(element.val) # id_for_tag(list[1])
         THEN non_homogenous_list(raw, index, char_width)
    ELSE parse_tag_list(raw, element.lx, Append(list, element.val))
TagListElement(raw, list, peeked) ==
    IF peeked.res = "Panic" THEN peeked
    ELSE TagListPush(raw, list,
                     IF peeked.res = "Ok" THEN peeked.val.index ELSE 0,
                     IF peeked.res = "Ok" THEN peeked.val.char_width ELSE 0,
                     parse_next_value(raw, peeked.lx, Some({COMMA, RSQUARE})))
TagListStep(raw, list, r) ==
    CASE r.res \in {"Err", "Panic"} -> r
      [] r.res = "Ok" /\ Kind(r.val) = "ClosedSquare" -> POk(list, r.lx)
      [] r.res = "Ok" /\ Kind(r.val) = "Comma" ->
            TagListElement(raw, list, LexerPeek(raw, r.lx, Some({COMMA, RSQUARE})))
      [] OTHER -> unexpected_token(raw, r, "',' or ']'")
parse_tag_list(raw, lx, list) == TagListStep(raw, list, LexerNext(raw, lx, None))
\* parse_tag_list from the result of the first element
TagListFrom(raw, first_element) ==
    IF first_element.res # "Ok" THEN first_element
    ELSE AsTag(9, parse_tag_list(raw, first_element.lx, <<first_element.val>>))

\* parse_list after a string as the first token; peeked is the next token
PrimList(raw, lx, open_square, td) ==
    CASE td.token[2] \in {<<98>>, <<66>>} -> parse_prim_list(raw, lx, open_square, "u8", <<>>, Some(0))
      [] td.token[2] \in {<<105>>, <<73>>} -> parse_prim_list(raw, lx, open_square, "i32", <<>>, Some(0))
      [] td.token[2] \in {<<108>>, <<76>>} -> parse_prim_list(raw, lx, open_square, "i64", <<>>, Some(0))
      [] OTHER -> unexpected_token_at(raw, td.index, td.char_width, "'B', 'I', or 'L'")
ListAfterString(raw, open_square, td, peeked) ==
    IF peeked.res = "Panic" THEN peeked
    ELSE IF peeked.res = "Ok" /\ Kind(peeked.val) = "Semicolon"
         THEN IF td.token[3]
              THEN unexpected_token_at(raw, td.index, td.char_width, "'B', 'I', or 'L'")
              ELSE PrimList(raw, LexerNext(raw, peeked.lx, None).lx, open_square, td)
    ELSE AsTag(9, parse_tag_list(raw, peeked.lx, <<TagString(td.token[2])>>))
\* parse_list on the first token r after the '['
ListFirst(raw, open_square, r) ==
    CASE r.res \in {"Err", "Panic"} -> r
      [] r.res = "Ok" /\ Kind(r.val) = "ClosedSquare" -> POk(TagList(<<>>), r.lx)
      [] r.res = "Ok" /\ Kind(r.val) = "String" ->
            ListAfterString(raw, open_square, r.val,
                            LexerPeek(raw, r.lx, Some({COMMA, RSQUARE, SEMICOLON})))
      [] OTHER -> TagListFrom(raw, parse_value(raw, r))
parse_list(raw, lx, open_square) ==
    ListFirst(raw, open_square, LexerNext(raw, lx, Some({COMMA, RSQUARE, SEMICOLON})))

\* parse_compound_tag, one turn of the loop on the token r
CompoundValue(raw, open_curly, compound, key, value) ==
    IF value.res # "Ok" THEN value
    ELSE parse_compound_tag(raw, value.lx, open_curly,
                            NbtCompoundInsert(compound, key, value.val), None)
CompoundColon(raw, open_curly, compound, key, colon) ==
    IF colon.res # "Ok" THEN colon
    ELSE CompoundValue(raw, open_curly, compound, key,
                       parse_next_value(raw, colon.lx, Some({COMMA, RCURLY})))
CompoundStep(raw, open_curly, compound, comma, r) ==
    CASE r.res \in {"Err", "Panic"} -> r
      [] r.res = "None" -> unmatched_brace(raw, open_curly.index)
      [] r.res = "Ok" /\ Kind(r.val) = "ClosedCurly" ->
            IF comma = None \/ comma = Some(0) THEN POk(compound, r.lx)
            ELSE trailing_comma(raw, comma[2])
      [] r.res = "Ok" /\ Kind(r.val) = "String" ->
            IF comma # None
            THEN CompoundColon(raw, open_curly, compound, r.val.token[2],
                               assert_next(raw, r.lx, "Colon"))
            ELSE unexpected_token_at(raw, r.val.index, r.val.char_width,
                                     as_expectation("Comma"))
      [] r.res = "Ok" /\ Kind(r.val) = "Comma" ->
            parse_compound_tag(raw, r.lx, open_curly, compound, Some(r.val.index))
      [] OTHER -> unexpected_token(raw, r, "compound key, '}', or ','")
parse_compound_tag(raw, lx, open_curly, compound, comma) ==
    CompoundStep(raw, open_curly, compound, comma, LexerNext(raw, lx, Some({COLON})))

\* parse_value on the token r, Ok(TokenData) or None
parse_value(raw, r) ==
    CASE r.res \in {"Err", "Panic"} -> r
      [] r.res = "None" -> unexpected_eos("value")
      [] r.res = "Ok" /\ Kind(r.val) = "OpenCurly" ->
            AsTag(10, parse_compound_tag(raw, r.lx, r.val, NbtCompoundNew, Some(0)))
      [] r.res = "Ok" /\ Kind(r.val) = "OpenSquare" -> parse_list(raw, r.lx, r.val)
      [] OTHER ->
            IF IsValueToken(r.val.token) THEN POk(into_tag(r.val.token), r.lx)
            ELSE unexpected_token(raw, r, "value")

\* ParseRoot of a parser that takes the whole input: after the closing
\* brace it asks for the end of the input
ParseRootToEnd(raw, open_curly) ==
    IF open_curly.res # "Ok" THEN open_curly
    ELSE LET r == parse_compound_tag(raw, open_curly.lx, open_curly.val, NbtCompoundNew, Some(0))
         IN  IF r.res = "Ok" /\ ~AtEnd(raw, r.lx)
             THEN unexpected_token_at(raw, r.lx.index, 1, "end of input")
             ELSE r
\* snbt::parse
ParseRoot(raw, open_curly) ==
    IF open_curly.res # "Ok" THEN open_curly
    ELSE parse_compound_tag(raw, open_curly.lx, open_curly.val, NbtCompoundNew, Some(0))
parse(raw) == ParseRoot(raw, assert_next(raw, LexerNew, "OpenCurly"))

-----------------------------------------------------------------------------
(* snbt.rs: the loops of the lexer and of the parser, one turn at a time.  *)
(* A frame holds the locals of a call in progress; the frames are the call *)
(* stack, innermost last.  A turn gives the frames and the lexer the loop  *)
(* goes on with, or the result that ends the call of parse or of next.     *)

Going(stack, lx) == [frames |-> stack, lx |-> lx, result |-> None]
Ended(result) == [frames |-> <<>>, lx |-> NoLexer, result |-> Some(result)]

\* the locals of slurp_token after its first character ch0; quote is the
\* opening quote, 0 in State::Unquoted
SlurpFrame(raw, lx, delimiter) ==
    [fn |-> "slurp_token", delimiter |-> delimiter,
     quote |-> IF raw[lx.pos] \in {SQUOTE, DQUOTE} THEN raw[lx.pos] ELSE 0,
     start |-> lx.index, char_width |-> 1,
     last_nws_char |-> raw[lx.pos], last_nws_char_pos |-> lx.index,
     curly_count |-> 0, square_count |-> 0, quotes |-> 0, buffer |-> <<>>]

\* a loop of State::Unquoted that looks at the character it accepts and
\* leaves it in the input
UnquotedTurnPeekOnly(raw, lx, st) ==
    IF AtEnd(raw, lx) THEN Ended(UnquotedEnd(raw, lx, st))
    ELSE CASE raw[lx.pos] = BACKSLASH ->
                 Going(<<[st EXCEPT !.quotes = IF @ < 4 THEN @ + 4 ELSE @]>>, next_ch(raw, lx))
           [] raw[lx.pos] = SQUOTE ->
                 Going(<<[st EXCEPT !.quotes = CASE @ = 0 -> 1 [] @ = 1 -> 0 [] OTHER -> @ % 4]>>,
                       next_ch(raw, lx))
           [] raw[lx.pos] = DQUOTE ->
                 Going(<<[st EXCEPT !.quotes = CASE @ = 0 -> 2 [] @ = 2 -> 0 [] OTHER -> @ % 4]>>,
                       next_ch(raw, lx))
           [] OTHER ->
                 IF st.curly_count + st.square_count + (st.quotes % 4) = 0
                    /\ IsDelimiter(st.delimiter, raw[lx.pos])
                 THEN Ended(UnquotedEnd(raw, lx, st))
                 ELSE Going(<<UnquotedAccept(CountBraces(st, raw[lx.pos]), raw[lx.pos], lx.index)>>,
                            lx)
\* slurp_token, one turn of the loop of State::Unquoted
UnquotedTurn(raw, lx, st) ==
    IF AtEnd(raw, lx) THEN Ended(UnquotedEnd(raw, lx, st))
    ELSE CASE raw[lx.pos] = BACKSLASH ->
                 Going(<<[st EXCEPT !.quotes = IF @ < 4 THEN @ + 4 ELSE @]>>, next_ch(raw, lx))
           [] raw[lx.pos] = SQUOTE ->
                 Going(<<[st EXCEPT !.quotes = CASE @ = 0 -> 1 [] @ = 1 -> 0 [] OTHER -> @ % 4]>>,
                       next_ch(raw, lx))
           [] raw[lx.pos] = DQUOTE ->
                 Going(<<[st EXCEPT !.quotes = CASE @ = 0 -> 2 [] @ = 2 -> 0 [] OTHER -> @ % 4]>>,
                       next_ch(raw, lx))
           [] OTHER ->
                 IF st.curly_count + st.square_count + (st.quotes % 4) = 0
                    /\ IsDelimiter(st.delimiter, raw[lx.pos])
                 THEN Ended(UnquotedEnd(raw, lx, st))
                 ELSE Going(<<UnquotedAccept(CountBraces(st, raw[lx.pos]), raw[lx.pos], lx.index)>>,
                            next_ch(raw, lx))

\* the four hex digits of \uXXXX: n digits read so far, value their number
RECURSIVE UnicodeTurn(_, _, _, _, _)
UnicodeTurn(raw, lx, st, n, value) ==
    IF n = 4
    THEN IF unknown_escape_sequence(raw, lx.index - 6, 6).res = "Panic"
            \/ value \in 55296..57343
         THEN Ended(unknown_escape_sequence(raw, lx.index - 6, 6))
         ELSE Going(<<[st EXCEPT !.buffer = Append(@, value)]>>, lx)
    ELSE IF AtEnd(raw, lx) THEN Ended(unexpected_eos("four-character hex unicode value"))
    ELSE IF ~is_digit16(raw[lx.pos])
         THEN Ended(unexpected_token_at(raw, next_ch(raw, lx).index - len_utf8(raw[lx.pos]), 1,
                                        "a hexadecimal digit"))
    ELSE UnicodeTurn(raw, next_ch(raw, lx), st, n + 1, value * 16 + HexValue(raw[lx.pos]))
\* the character after a backslash; st.buffer is the buffer, set from the
\* input when it was empty
EscapeTurn(raw, lx, st) ==
    IF AtEnd(raw, lx) THEN Ended(unmatched_quote(raw, st.start))
    ELSE CASE raw[lx.pos] \in {SQUOTE, DQUOTE, BACKSLASH} ->
                 Going(<<[st EXCEPT !.buffer = Append(@, raw[lx.pos])]>>, next_ch(raw, lx))
           [] raw[lx.pos] = 110 -> Going(<<[st EXCEPT !.buffer = Append(@, 10)]>>, next_ch(raw, lx))
           [] raw[lx.pos] = 114 -> Going(<<[st EXCEPT !.buffer = Append(@, 13)]>>, next_ch(raw, lx))
           [] raw[lx.pos] = 116 -> Going(<<[st EXCEPT !.buffer = Append(@, 9)]>>, next_ch(raw, lx))
           [] raw[lx.pos] = 117 ->
                 UnicodeTurn(raw, next_ch(raw, lx), [st EXCEPT !.char_width = @ + 4], 0, 0)
           [] OTHER -> Ended(unknown_escape_sequence(raw, next_ch(raw, lx).index - 2, 2))
\* raw_token_buffer, borrowed from the input while it is empty; lx is the
\* lexer after the backslash or the closing quote
Borrowed(raw, lx, st) ==
    IF st.buffer = <<>> THEN StrSlice(raw, st.start + 1, lx.index - 1) ELSE StrOk(st.buffer)
\* slurp_token, one turn of the loop of State::InSingleQuotes | InDoubleQuotes
QuotedTurn(raw, lx, st) ==
    IF AtEnd(raw, lx) THEN Ended(unmatched_quote(raw, st.start))
    ELSE CASE raw[lx.pos] = BACKSLASH ->
                 IF ~Borrowed(raw, next_ch(raw, lx), st).ok THEN Ended(PPanic)
                 ELSE EscapeTurn(raw, next_ch(raw, lx),
                                 [st EXCEPT !.char_width = @ + 2,
                                            !.buffer = Borrowed(raw, next_ch(raw, lx), st).s])
           [] raw[lx.pos] = st.quote ->
                 Ended(parse_token(raw, next_ch(raw, lx), st.start, st.char_width + 1, TRUE,
                                   Borrowed(raw, next_ch(raw, lx), st)))
           [] OTHER -> Going(<<[st EXCEPT !.char_width = @ + 1]>>, next_ch(raw, lx))
\* one turn of the loop slurp_token is in
SlurpTurn(raw, lx, st) ==
    IF st.quote = 0 THEN UnquotedTurn(raw, lx, st) ELSE QuotedTurn(raw, lx, st)

\* the locals of parse_compound_tag, parse_list / parse_tag_list and
\* parse_prim_list.  key is the key whose value is being parsed by the call
\* above; index and char_width are those of the element being parsed by the
\* call above.  A frame of parse_list waits for its first element.
CompoundFrame(open_curly) ==
    [fn |-> "parse_compound_tag", open |-> open_curly, type |-> "", value |-> NbtCompoundNew,
     comma |-> Some(0), key |-> None, index |-> 0, char_width |-> 0]
ListFrame(open_square) ==
    [fn |-> "parse_list", open |-> open_square, type |-> "", value |-> <<>>,
     comma |-> None, key |-> None, index |-> 0, char_width |-> 0]
TagListFrame(open_square, first_element) ==
    [ListFrame(open_square) EXCEPT !.fn = "parse_tag_list", !.value = <<first_element>>]
PrimListFrame(open_square, type) ==
    [ListFrame(open_square) EXCEPT !.fn = "parse_prim_list", !.type = type, !.comma = Some(0)]
Top(stack) == stack[Len(stack)]
SetTop(stack, frame) == [stack EXCEPT ![Len(stack)] = frame]

\* the call above has returned tag to the call on top of the stack
Returned(raw, stack, tag, lx) ==
    CASE Top(stack).fn = "parse_compound_tag" ->
            Going(SetTop(stack, [Top(stack) EXCEPT
                                   !.value = NbtCompoundInsert(@, Top(stack).key[2], tag),
                                   !.comma = None, !.key = None]), lx)
      [] Top(stack).fn = "parse_list" ->
            Going(SetTop(stack, [Top(stack) EXCEPT !.fn = "parse_tag_list", !.value = <<tag>>]), lx)
      [] Top(stack).fn = "parse_tag_list" ->
            IF id_for_tag(tag) # id_for_tag(Top(stack).value[1])
            THEN Ended(non_homogenous_list(raw, Top(stack).index, Top(stack).char_width))
            ELSE Going(SetTop(stack, [Top(stack) EXCEPT !.value = Append(@, tag)]), lx)

RECURSIVE BeginValue(_, _, _)
\* parse_list up to its loop, after a string as the first token
BeginPrimList(raw, stack, open_square, td, lx) ==
    CASE td.token[2] \in {<<98>>, <<66>>} ->
            Going(Append(stack, PrimListFrame(open_square, "u8")), lx)
      [] td.token[2] \in {<<105>>, <<73>>} ->
            Going(Append(stack, PrimListFrame(open_square, "i32")), lx)
      [] td.token[2] \in {<<108>>, <<76>>} ->
            Going(Append(stack, PrimListFrame(open_square, "i64")), lx)
      [] OTHER -> Ended(unexpected_token_at(raw, td.index, td.char_width, "'B', 'I', or 'L'"))
BeginListAfterString(raw, stack, open_square, td, peeked) ==
    IF peeked.res = "Panic" THEN Ended(peeked)
    ELSE IF peeked.res = "Ok" /\ Kind(peeked.val) = "Semicolon"
         THEN IF td.token[3]
              THEN Ended(unexpected_token_at(raw, td.index, td.char_width, "'B', 'I', or 'L'"))
              ELSE BeginPrimList(raw, stack, open_square, td,
                                 LexerNext(raw, peeked.lx, None).lx)
    ELSE Going(Append(stack, TagListFrame(open_square, TagString(td.token[2]))), peeked.lx)
\* parse_list up to its loop, on the first token r after the '['
BeginList(raw, stack, open_square, r) ==
    CASE r.res \in {"Err", "Panic"} -> Ended(r)
      [] r.res = "Ok" /\ Kind(r.val) = "ClosedSquare" -> Returned(raw, stack, TagList(<<>>), r.lx)
      [] r.res = "Ok" /\ Kind(r.val) = "String" ->
            BeginListAfterString(raw, stack, open_square, r.val,
                                 LexerPeek(raw, r.lx, Some({COMMA, RSQUARE, SEMICOLON})))
      [] OTHER -> BeginValue(raw, Append(stack, ListFrame(open_square)), r)
\* parse_value on the token r, up to the loop of the compound or list it opens
BeginValue(raw, stack, r) ==
    CASE r.res \in {"Err", "Panic"} -> Ended(r)
      [] r.res = "None" -> Ended(unexpected_eos("value"))
      [] r.res = "Ok" /\ Kind(r.val) = "OpenCurly" ->
            Going(Append(stack, CompoundFrame(r.val)), r.lx)
      [] r.res = "Ok" /\ Kind(r.val) = "OpenSquare" ->
            BeginList(raw, stack, r.val,
                      LexerNext(raw, r.lx, Some({COMMA, RSQUARE, SEMICOLON})))
      [] OTHER ->
            IF IsValueToken(r.val.token) THEN Returned(raw, stack, into_tag(r.val.token), r.lx)
            ELSE Ended(unexpected_token(raw, r, "value"))

\* the call on top of the stack returns tag: to the call below it, or as
\* the result of parse
Return(raw, stack, payload, tag, lx) ==
    IF Len(stack) = 1 THEN Ended(POk(payload, lx))
    ELSE Returned(raw, Front(stack), tag, lx)

\* parse_compound_tag, one turn of the loop on the token r
CompoundTurnColon(raw, stack, key, colon) ==
    IF colon.res # "Ok" THEN Ended(colon)
    ELSE BeginValue(raw, SetTop(stack, [Top(stack) EXCEPT !.key = Some(key)]),
                    LexerNext(raw, colon.lx, Some({COMMA, RCURLY})))
CompoundTurnOn(raw, stack, r) ==
    CASE r.res \in {"Err", "Panic"} -> Ended(r)
      [] r.res = "None" -> Ended(unmatched_brace(raw, Top(stack).open.index))
      [] r.res = "Ok" /\ Kind(r.val) = "ClosedCurly" ->
            IF Top(stack).comma = None \/ Top(stack).comma = Some(0)
            THEN Return(raw, stack, Top(stack).value, TagCompound(Top(stack).value), r.lx)
            ELSE Ended(trailing_comma(raw, Top(stack).comma[2]))
      [] r.res = "Ok" /\ Kind(r.val) = "String" ->
            IF Top(stack).comma # None
            THEN CompoundTurnColon(raw, stack, r.val.token[2], assert_next(raw, r.lx, "Colon"))
            ELSE Ended(unexpected_token_at(raw, r.val.index, r.val.char_width,
                                           as_expectation("Comma")))
      [] r.res = "Ok" /\ Kind(r.val) = "Comma" ->
            Going(SetTop(stack, [Top(stack) EXCEPT !.comma = Some(r.val.index)]), r.lx)
      [] OTHER -> Ended(unexpected_token(raw, r, "compound key, '}', or ','"))
CompoundLoop(raw, stack, lx) ==
    CompoundTurnOn(raw, stack, LexerNext(raw, lx, Some({COLON})))

\* parse_tag_list, one turn of the loop on the token r
TagListTurnElement(raw, stack, peeked) ==
    IF peeked.res = "Panic" THEN Ended(peeked)
    ELSE BeginValue(raw,
                    SetTop(stack, [Top(stack) EXCEPT
                                     !.index = IF peeked.res = "Ok" THEN peeked.val.index ELSE 0,
                                     !.char_width = IF peeked.res = "Ok"
                                                    THEN peeked.val.char_width ELSE 0]),
                    LexerNext(raw, peeked.lx, Some({COMMA, RSQUARE})))
TagListTurnOn(raw, stack, r) ==
    CASE r.res \in {"Err", "Panic"} -> Ended(r)
      [] r.res = "Ok" /\ Kind(r.val) = "ClosedSquare" ->
            Return(raw, stack, Top(stack).value, TagList(Top(stack).value), r.lx)
      [] r.res = "Ok" /\ Kind(r.val) = "Comma" ->
            TagListTurnElement(raw, stack, LexerPeek(raw, r.lx, Some({COMMA, RSQUARE})))
      [] OTHER -> Ended(unexpected_token(raw, r, "',' or ']'"))
TagListLoop(raw, stack, lx) == TagListTurnOn(raw, stack, LexerNext(raw, lx, None))

\* parse_prim_list, one turn of the loop on the token r
PrimListTurnOn(raw, stack, r) ==
    CASE r.res \in {"Err", "Panic"} -> Ended(r)
      [] r.res = "None" -> Ended(unmatched_brace(raw, Top(stack).open.index))
      [] r.res = "Ok" /\ Kind(r.val) = "ClosedSquare" ->
            IF Top(stack).comma = None \/ Top(stack).comma = Some(0)
            THEN Return(raw, stack, Top(stack).value,
                        PrimListTag(Top(stack).type, Top(stack).value), r.lx)
            ELSE Ended(trailing_comma(raw, Top(stack).comma[2]))
      [] r.res = "Ok" /\ Kind(r.val) = "Comma" ->
            Going(SetTop(stack, [Top(stack) EXCEPT !.comma = Some(r.val.index)]), r.lx)
      [] OTHER ->
            IF Top(stack).comma = None
            THEN Ended(unexpected_token(raw, r, as_expectation("Comma")))
            ELSE IF ~IsIntegerToken(r.val.token)
                 THEN Ended(non_homogenous_list(raw, r.val.index, r.val.char_width))
            ELSE Going(SetTop(stack, [Top(stack) EXCEPT
                                        !.value = Append(@, into_value(Top(stack).type,
                                                                      r.val.token)),
                                        !.comma = None]), r.lx)
PrimListLoop(raw, stack, lx) ==
    PrimListTurnOn(raw, stack, LexerNext(raw, lx, Some({COMMA, RSQUARE})))

\* the input up to which tokens have been handed out: a token in `peeked`
\* has been read and not handed out
Taken(raw, lx) ==
    IF lx.peeked # None /\ lx.peeked[2].res = "Ok" THEN CharPos(raw, lx.peeked[2].val.index)
    ELSE lx.pos

-----------------------------------------------------------------------------
(* tag.rs: the SNBT printer.  The entries of a compound are printed in the *)
(* iteration order of its HashMap: the printer is modelled by the set of   *)
(* the strings it can produce.  indent is the string `indent`; alternate   *)
(* is Formatter::alternate, set by to_pretty_snbt.                         *)

\* NbtTag::should_quote
should_quote(string) ==
    \E i \in 1..Len(string) :
        string[i] \in {COLON, COMMA, DQUOTE, SQUOTE, LCURLY, RCURLY, LSQUARE, RSQUARE,
                       BACKSLASH, 10, 13, 9}

\* NbtTag::string_to_snbt
RECURSIVE EscapeChars(_, _)
EscapeChars(string, surrounding) ==
    IF string = <<>> THEN <<>>
    ELSE (CASE Head(string) = 10 -> <<BACKSLASH, 110>>
            [] Head(string) = 13 -> <<BACKSLASH, 114>>
            [] Head(string) = 9 -> <<BACKSLASH, 116>>
            [] Head(string) = surrounding \/ Head(string) = BACKSLASH ->
                  <<BACKSLASH, Head(string)>>
            [] OTHER -> <<Head(string)>>)
         \o EscapeChars(Tail(string), surrounding)
Quoted(string, surrounding) ==
    <<surrounding>> \o EscapeChars(string, surrounding) \o <<surrounding>>
string_to_snbt(string) ==
    IF ~should_quote(string) THEN string
    ELSE IF \E i \in 1..Len(string) : string[i] = DQUOTE THEN Quoted(string, SQUOTE)
    ELSE Quoted(string, DQUOTE)

\* NbtTag::type_specifier of the numbers and arrays: B S L F D, B I L
type_specifier(id) ==
    CASE id \in {1, 7} -> <<66>>
      [] id = 2 -> <<83>>
      [] id \in {4, 12} -> <<76>>
      [] id = 5 -> <<70>>
      [] id = 6 -> <<68>>
      [] id = 11 -> <<73>>
      [] OTHER -> <<>>

Cat(A, B) == {a \o b : a \in A, b \in B}
Indent(n) == [i \in 1..(4 * n) |-> SPACE]
\* the separator after an element that is not the last one
Separator(alternate) == IF alternate THEN <<COMMA, NEWLINE>> ELSE <<COMMA>>

\* write_list of NbtTag::to_formatted_snbt: the elements from element i on
RECURSIVE WriteListFrom(_, _, _, _)
WriteListFrom(list, i, indent, alternate) ==
    IF i > Len(list) THEN <<>>
    ELSE (IF alternate THEN Indent(indent) ELSE <<>>)
         \o DisplayInt(list[i])
         \o (IF i # Len(list) THEN Separator(alternate) ELSE <<>>)
         \o WriteListFrom(list, i + 1, indent, alternate)
write_list(list, indent, ts, alternate) ==
    IF list = <<>> THEN <<LSQUARE>> \o ts \o <<SEMICOLON, RSQUARE>>
    ELSE IF alternate
         THEN <<LSQUARE, NEWLINE>> \o Indent(indent + 1) \o ts \o <<SEMICOLON, NEWLINE>>
              \o WriteListFrom(list, 1, indent + 1, alternate)
              \o <<NEWLINE>> \o Indent(indent) \o <<RSQUARE>>
    ELSE <<LSQUARE>> \o ts \o <<SEMICOLON>> \o WriteListFrom(list, 1, indent, alternate)
         \o <<RSQUARE>>

RECURSIVE to_formatted_snbt(_, _, _)
\* NbtList::to_formatted_snbt: the elements from element i on
RECURSIVE ListElementsFrom(_, _, _, _)
ListElementsFrom(list, i, indent, alternate) ==
    IF i > Len(list) THEN {<<>>}
    ELSE Cat(Cat({IF alternate THEN Indent(indent) ELSE <<>>},
                 to_formatted_snbt(list[i], indent, alternate)),
             Cat({IF i # Len(list) THEN Separator(alternate) ELSE <<>>},
                 ListElementsFrom(list, i + 1, indent, alternate)))
\* NbtCompound::to_formatted_snbt: the entries of the given order from i on
RECURSIVE CompoundEntriesFrom(_, _, _, _, _)
CompoundEntriesFrom(compound, order, i, indent, alternate) ==
    IF i > Len(order) THEN {<<>>}
    ELSE Cat(Cat({IF alternate
                  THEN Indent(indent) \o string_to_snbt(order[i]) \o <<COLON, SPACE>>
                  ELSE string_to_snbt(order[i]) \o <<COLON>>},
                 to_formatted_snbt(compound[order[i]], indent, alternate)),
             Cat({IF i # Len(order) THEN Separator(alternate) ELSE <<>>},
                 CompoundEntriesFrom(compound, order, i + 1, indent, alternate)))
\* the opening and closing of a list or compound that is not empty
Open(bracket, alternate) == IF alternate THEN <<bracket, NEWLINE>> ELSE <<bracket>>
Close(bracket, indent, alternate) ==
    IF alternate THEN <<NEWLINE>> \o Indent(indent) \o <<bracket>> ELSE <<bracket>>

\* NbtTag::to_formatted_snbt (with NbtList's and NbtCompound's)
to_formatted_snbt(tag, indent, alternate) ==
    CASE id_for_tag(tag) \in {1, 2, 3, 4} ->
            {DisplayInt(Payload(tag)) \o type_specifier(id_for_tag(tag))}
      [] id_for_tag(tag) \in {5, 6} ->
            {DisplayFloat(Payload(tag)) \o type_specifier(id_for_tag(tag))}
      [] id_for_tag(tag) \in {7, 11, 12} ->
            {write_list(Payload(tag), indent, type_specifier(id_for_tag(tag)), alternate)}
      [] id_for_tag(tag) = 8 -> {string_to_snbt(Payload(tag))}
      [] id_for_tag(tag) = 9 ->
            IF Payload(tag) = <<>> THEN {<<LSQUARE, RSQUARE>>}
            ELSE Cat(Cat({Open(LSQUARE, alternate)},
                         ListElementsFrom(Payload(tag), 1, indent + 1, alternate)),
                     {Close(RSQUARE, indent, alternate)})
      [] id_for_tag(tag) = 10 ->
            IF DOMAIN Payload(tag) = {} THEN {<<LCURLY, RCURLY>>}
            ELSE UNION {Cat(Cat({Open(LCURLY, alternate)},
                                CompoundEntriesFrom(Payload(tag), order, 1, indent + 1,
                                                    alternate)),
                            {Close(RCURLY, indent, alternate)})
                        : order \in Orders(DOMAIN Payload(tag))}

\* NbtCompound::to_snbt and NbtCompound::to_pretty_snbt
to_snbt(compound) == to_formatted_snbt(TagCompound(compound), 0, FALSE)
to_pretty_snbt(compound) == to_formatted_snbt(TagCompound(compound), 0, TRUE)


-----------------------------------------------------------------------------
(* The trees handed to the writer *)

\* "a", "b", "c", "d", "byte", "short", "test"
NameA == <<97>>
NameByte == <<98, 121, 116, 101>>
NameShort == <<115, 104, 111, 114, 116>>
NameTest == <<116, 101, 115, 116>>
FillerNames == <<<<98>>, <<99>>, <<100>>, <<101>>>>

\* 12.99f32, 1212.0101f64
F32Sample == <<65, 79, 215, 10>>
F64Sample == <<64, 146, 240, 10, 87, 167, 134, 195>>

Compound1(name, tag) == NbtCompoundInsert(NbtCompoundNew, name, tag)

Leaves ==
    { TagByte(12), TagByte(-128), TagShort(32), TagShort(-2), TagInt(512), TagInt(-1),
      TagLong(I64(1024)), TagLong(I64(-1)), TagFloat(F32Sample), TagDouble(F64Sample),
      TagByteArray(<<>>), TagByteArray(<<1, -2>>),
      TagString(<<>>), TagString(NameTest), TagString(<<0, 233, 8364, 66561>>),
      TagIntArray(<<>>), TagIntArray(<<1, -3>>),
      TagLongArray(<<>>), TagLongArray(<<I64(1), I64(-9)>>) }

ListElems ==
    { TagByte(1), TagShort(2), TagString(NameA), TagByteArray(<<3>>), TagIntArray(<<7>>),
      TagList(<<>>), TagList(<<TagByte(1)>>), TagList(<<TagByte(1), TagShort(2)>>),
      TagCompound(NbtCompoundNew), TagCompound(Compound1(NameTest, TagByte(12))) }

Lists == {TagList(l) : l \in SeqsUpTo(ListElems, MaxListLen)}

Compounds ==
    { TagCompound(NbtCompoundNew),
      TagCompound(Compound1(NameTest, TagByte(12))),
      TagCompound(Compound1(NameA, TagList(<<TagByte(1), TagShort(2)>>))),
      TagCompound(NbtCompoundInsert(Compound1(NameA, TagByteArray(<<5>>)), NameTest, TagShort(7))) }

Values == Leaves \cup Lists \cup Compounds

Fillers == {TagByte(12), TagString(NameA), TagList(<<TagShort(1)>>)}

\* a compound with one entry under the name "a" and up to MaxEntries - 1
\* further entries
RECURSIVE WithFillers(_, _)
WithFillers(compound, k) ==
    IF k = 0 THEN {compound}
    ELSE {compound} \cup
         UNION {WithFillers(NbtCompoundInsert(compound, FillerNames[k], f), k - 1)
                : f \in Fillers}

ByteShort == NbtCompoundInsert(Compound1(NameByte, TagByte(12)), NameShort, TagShort(32))

\* u16::MAX, the largest length the prefix of a string can hold
U16Max == 65535

\* n times the character c
Repeat(c, n) == [i \in 1..n |-> c]

\* strings whose modified UTF-8 encoding is one byte short of u16::MAX bytes,
\* exactly that long, and one byte longer: of "a" (one byte each), of U+20AC
\* (three bytes each) and of U+00E9 (two bytes each)
BoundaryStrings ==
    {Repeat(97, n) : n \in {U16Max - 1, U16Max, U16Max + 1}}
        \cup {Repeat(8364, U16Max \div 3), Repeat(233, (U16Max + 1) \div 2)}

Roots ==
    {NbtCompoundNew, ByteShort}
        \cup UNION {WithFillers(Compound1(NameA, v), MaxEntries - 1) : v \in Values}

\* a NUL, one-, two- and three-byte characters and one outside the BMP
SampleChars == {0, 97, 233, 8364, 66561}

StringRoots ==
    {Compound1(NameA, TagString(string))
        : string \in BoundaryStrings \cup SeqsUpTo(SampleChars, MaxListLen)}

RootNames == {None, Some(<<>>), Some(<<76, 0, 233>>)}

\* {"byte": Byte(12), "short": Short(32)} with the entry "byte" first
ByteShortBytes ==
    <<10, 0, 0, 1, 0, 4, 98, 121, 116, 101, 12,
      2, 0, 5, 115, 104, 111, 114, 116, 0, 32, 0>>
\* the same compound with the entry "short" first
ShortByteBytes ==
    <<10, 0, 0, 2, 0, 5, 115, 104, 111, 114, 116, 0, 32,
      1, 0, 4, 98, 121, 116, 101, 12, 0>>

-----------------------------------------------------------------------------
(* The byte streams handed to the reader *)

\* the root header 0A 00 00 and the header of an entry "a" of the given type
EntryA(id) == <<10, 0, 0, id, 0, 1, 97>>

\* well-formed streams, one for each kind of body
BaseStreams ==
    { ByteShortBytes,
      EntryA(7) \o <<0, 0, 0, 2, 1, 254>> \o <<0>>,
      EntryA(8) \o <<0, 2, 195, 169>> \o <<0>>,
      EntryA(9) \o <<1, 0, 0, 0, 2, 5, 6>> \o <<0>>,
      EntryA(9) \o <<9, 0, 0, 0, 1, 2, 0, 0, 0, 1, 0, 7>> \o <<0>>,
      EntryA(10) \o <<3, 0, 1, 98, 0, 0, 2, 0, 0>> \o <<0>>,
      EntryA(11) \o <<0, 0, 0, 1, 255, 255, 255, 253>> \o <<0>>,
      EntryA(12) \o <<0, 0, 0, 1, 0, 0, 0, 0, 0, 0, 0, 9>> \o <<0>> }

\* the values a damaged byte takes
PatchBytes == {0, 9, 10, 13, 128, 255}

Prefixes(s) == {SubSeq(s, 1, k) : k \in 0..Len(s)}
Patches(s) == {[s EXCEPT ![i] = b] : i \in 1..Len(s), b \in PatchBytes}

\* lists of every element type byte with a count of 0, 1 or -1
ListStreams ==
    {EntryA(9) \o <<t>> \o count \o <<0>> :
        t \in (0..14) \cup {255}, count \in {<<0, 0, 0, 0>>, <<0, 0, 0, 1>>, <<255, 255, 255, 255>>}}

Streams ==
    ListStreams \cup UNION {Prefixes(s) \cup Patches(s) : s \in BaseStreams}

-----------------------------------------------------------------------------
(* Writing a tree and reading the bytes back *)

NoRes == [res |-> "none", val |-> <<>>, pos |-> 0, err |-> NoErr]
Unset == Err("unset", 0, 0)

\* a tree about to be written and read back
InitTree ==
    /\ pc = "write"
    /\ api = "none"
    /\ root \in Roots
    /\ root_name \in RootNames
    /\ writer = <<>>
    /\ wres = Unset
    /\ rres = NoRes
    /\ text = <<>>
    /\ pres = NoRes
    /\ frames = <<>>

\* a stream from elsewhere about to be read
InitStream ==
    /\ pc = "read"
    /\ api = "none"
    /\ root = NbtCompoundNew
    /\ root_name = None
    /\ writer \in Streams
    /\ wres = Unset
    /\ rres = NoRes
    /\ text = <<>>
    /\ pres = NoRes
    /\ frames = <<>>

InitIo == InitTree \/ InitStream

\* a compound holding one string about to be written and read back
InitString ==
    /\ pc = "write"
    /\ api = "none"
    /\ root \in StringRoots
    /\ root_name \in RootNames
    /\ writer = <<>>
    /\ wres = Unset
    /\ rres = NoRes
    /\ text = <<>>
    /\ pres = NoRes
    /\ frames = <<>>

\* write_nbt(&mut writer, root_name, &root, Flavor::Uncompressed)
WriteNbt ==
    /\ pc = "write"
    /\ \E out \in write_nbt_uncompressed(root_name, root) :
          /\ writer' = writer \o out.bytes
          /\ wres' = out.err
    /\ pc' = "read"
    /\ api' = "io"
    /\ UNCHANGED <<root, root_name, rres, text, pres, frames>>

\* read_nbt(&mut Cursor::new(writer), Flavor::Uncompressed)
ReadNbt ==
    /\ pc = "read"
    /\ rres' = read_nbt_uncompressed(writer)
    /\ pc' = "done"
    /\ UNCHANGED <<api, root, root_name, writer, wres, text, pres, frames>>

NextIo == WriteNbt \/ ReadNbt

SpecIo == InitIo /\ [][NextIo]_vars

SpecString == InitString /\ [][NextIo]_vars

\* serde::serialize_into(&mut writer, &root, root_name, Flavor::Uncompressed)
SerializeInto ==
    /\ pc = "write"
    /\ \E out \in serialize_into("Homogenous", root_name, root) :
          /\ writer' = writer \o out.bytes
          /\ wres' = out.err
    /\ pc' = "read"
    /\ api' = "serde"
    /\ UNCHANGED <<root, root_name, rres, text, pres, frames>>

\* serde::serialize_into_unchecked(&mut writer, &root, root_name, ..)
SerializeIntoUnchecked ==
    /\ pc = "write"
    /\ \E out \in serialize_into("Unchecked", root_name, root) :
          /\ writer' = writer \o out.bytes
          /\ wres' = out.err
    /\ pc' = "read"
    /\ api' = "serde_unchecked"
    /\ UNCHANGED <<root, root_name, rres, text, pres, frames>>

NextSerde == WriteNbt \/ SerializeInto \/ SerializeIntoUnchecked \/ ReadNbt

SpecSerde == InitTree /\ [][NextSerde]_vars

-----------------------------------------------------------------------------
(* The trees handed to the SNBT printer and the strings handed to the      *)
(* SNBT parser *)

NameStr == <<115, 116, 114>>

\* the strings of the trees: "test", "1", "-1", "0", "-0", "0.5", "-0.5", "a b", "a, e-acute, U+65E5, U+10401", "it's", "x,y", "a\nb" (with a line feed), ""
SnbtStrings ==
    { <<116, 101, 115, 116>>,
      <<49>>,
      <<45, 49>>,
      <<48>>,
      <<45, 48>>,
      <<48, 46, 53>>,
      <<45, 48, 46, 53>>,
      <<97, 32, 98>>,
      <<97, 233, 26085, 66561>>,
      <<105, 116, 39, 115>>,
      <<120, 44, 121>>,
      <<97, 10, 98>>,
      <<>> }

\* the values of the trees; every list holds elements of one tag type
SnbtLeaves ==
    { TagByte(1), TagByte(-128), TagShort(32), TagInt(5), TagInt(-7), TagLong(1024),
      TagFloat(<<5, -1>>), TagFloat(<<1, 1>>), TagDouble(<<-25, -1>>), TagDouble(<<5, 0>>),
      TagByteArray(<<>>), TagByteArray(<<1, -2>>), TagIntArray(<<3>>), TagLongArray(<<10>>) }
    \cup {TagString(s) : s \in SnbtStrings}
SnbtListElems ==
    { TagByte(1), TagInt(5), TagInt(-7), TagString(NameTest), TagString(<<49>>),
      TagList(<<>>), TagIntArray(<<3>>), TagCompound(Compound1(NameA, TagInt(5))) }
SnbtLists ==
    {TagList(l) : l \in {m \in SeqsUpTo(SnbtListElems, MaxListLen) :
                            \A i \in 1..Len(m) : id_for_tag(m[i]) = id_for_tag(m[1])}}
SnbtCompounds ==
    {TagCompound(NbtCompoundNew)}
    \cup {TagCompound(Compound1(NameStr, tag)) : tag \in {TagInt(5), TagString(<<49>>), TagList(<<TagInt(5)>>)}}
SnbtValues == SnbtLeaves \cup SnbtLists \cup SnbtCompounds
SnbtRoots ==
    {NbtCompoundNew}
    \cup {Compound1(name, tag) : name \in {NameA, NameStr}, tag \in SnbtValues}
    \cup {NbtCompoundInsert(Compound1(NameA, tag), NameStr, TagString(NameTest))
          : tag \in SnbtLeaves}

\* well-formed and ill-formed strings, written out below each definition
\* {a:1}
Text1 == <<123, 97, 58, 49, 125>>
\* {a:"b\nc"}
Text2 == <<123, 97, 58, 34, 98, 92, 110, 99, 34, 125>>
\* {a:'x',b:[1,2]}
Text3 == <<123, 97, 58, 39, 120, 39, 44, 98, 58, 91, 49, 44, 50, 93, 125>>
\* {a:[B;1,2]}
Text4 == <<123, 97, 58, 91, 66, 59, 49, 44, 50, 93, 125>>
\* {a:"\u00e9"}
Text5 == <<123, 97, 58, 34, 92, 117, 48, 48, 101, 57, 34, 125>>
\* {a: -1.5f }
Text6 == <<123, 97, 58, 32, 45, 49, 46, 53, 102, 32, 125>>
\* {a:{b:x},}
Text7 == <<123, 97, 58, 123, 98, 58, 120, 125, 44, 125>>
\* {a:[x,"y"]}
Text8 == <<123, 97, 58, 91, 120, 44, 34, 121, 34, 93, 125>>
BaseTexts == {Text1, Text2, Text3, Text4, Text5, Text6, Text7, Text8}

\* the characters put in the place of one character of a base string:
\* \ " ' , } space u 1 . and U+00E9, U+20AC, U+10401 (2, 3 and 4 bytes)
PatchChars == {BACKSLASH, DQUOTE, SQUOTE, COMMA, RCURLY, SPACE, 117, 49, DOT, 233, 8364, 66561}
TextPatches(s) == {[s EXCEPT ![i] = ch] : i \in 1..Len(s), ch \in PatchChars}
\* a base string followed by more text
Garbage == <<SPACE, 120>>
\* more text to follow a string: " x", " and some garbage", }, ", a comma, :1
Garbages ==
    { Garbage,
      <<32, 97, 110, 100, 32, 115, 111, 109, 101, 32, 103, 97, 114, 98, 97, 103, 101>>,
      <<RCURLY>>, <<DQUOTE>>, <<COMMA>>, <<COLON, 49>> }
Texts ==
    UNION {Prefixes(s) \cup TextPatches(s) \cup {s \o Garbage} : s \in BaseTexts}

\* {a:value}: the compound whose only entry "a" has the given source text
ValueText(value) == <<LCURLY, 97, COLON>> \o value \o <<RCURLY>>

\* number literals without a suffix: 5, -5, 12, 0, 5.0, -0.5, 1.25
IntegerBodies == {<<53>>, <<45, 53>>, <<49, 50>>, <<48>>}
DecimalBodies == {<<53, 46, 48>>, <<45, 48, 46, 53>>, <<49, 46, 50, 53>>}
\* no suffix, or one of b B s S l L f F d D
NumberSuffixes == {<<>>} \cup {<<ch>> : ch \in IntegerSuffixes}
NumberTexts ==
    {ValueText(body \o suffix) : body \in IntegerBodies \cup DecimalBodies,
                                 suffix \in NumberSuffixes}

\* list elements with the tag each denotes: 1, 2, 2.0, x, U+00E9, {}
ElementSources ==
    { [src |-> <<49>>, tag |-> TagInt(1)],
      [src |-> <<50>>, tag |-> TagInt(2)],
      [src |-> <<50, 46, 48>>, tag |-> TagDouble(<<2, 0>>)],
      [src |-> <<120>>, tag |-> TagString(<<120>>)],
      [src |-> <<233>>, tag |-> TagString(<<233>>)],
      [src |-> <<LCURLY, RCURLY>>, tag |-> TagCompound(NbtCompoundNew)] }
ElementSeqs ==
    {<<a, b>> : a \in ElementSources, b \in ElementSources}
    \cup {<<a, b, c>> : a \in ElementSources, b \in ElementSources, c \in ElementSources}
\* "," and ", "
Separators == {<<COMMA>>, <<COMMA, SPACE>>}
\* the elements up to element n, each followed by the separator
RECURSIVE Joined(_, _, _)
Joined(elements, n, sep) ==
    IF n = 0 THEN <<>> ELSE Joined(elements, n - 1, sep) \o elements[n].src \o sep
\* {a:[e1,e2 followed by the tail
ListText(elements, sep, tail) ==
    <<LCURLY, 97, COLON, LSQUARE>> \o Joined(elements, Len(elements) - 1, sep)
        \o elements[Len(elements)].src \o tail
\* the list closed and the compound closed, or the input ending there
ListTails == {<<RSQUARE, RCURLY>>, <<>>}
ListTexts ==
    {ListText(elements, sep, tail) : elements \in ElementSeqs, sep \in Separators,
                                     tail \in ListTails}

\* containers open after their last element, with the text that closes them
\* and the compound they denote: {a:1 }, {a:{b:1 }}, {a:[I;1 ]}, {a:[1 ]}
OpenContainers ==
    { [head |-> <<LCURLY, 97, COLON, 49>>, close |-> <<RCURLY>>,
       val |-> Compound1(NameA, TagInt(1))],
      [head |-> <<LCURLY, 97, COLON, LCURLY, 98, COLON, 49>>, close |-> <<RCURLY, RCURLY>>,
       val |-> Compound1(NameA, TagCompound(Compound1(<<98>>, TagInt(1))))],
      [head |-> <<LCURLY, 97, COLON, LSQUARE, 73, SEMICOLON, 49>>,
       close |-> <<RSQUARE, RCURLY>>, val |-> Compound1(NameA, TagIntArray(<<1>>))],
      [head |-> <<LCURLY, 97, COLON, LSQUARE, 49>>, close |-> <<RSQUARE, RCURLY>>,
       val |-> Compound1(NameA, TagList(<<TagInt(1)>>))] }
\* the container closed after a comma, with or without a space, and without a comma
TrailingCommaText(container, sep) == container.head \o sep \o container.close
ClosedText(container) == container.head \o container.close
TrailingCommaTexts ==
    {TrailingCommaText(container, sep) : container \in OpenContainers, sep \in Separators}
    \cup {ClosedText(container) : container \in OpenContainers}

\* compound keys with the name each denotes: a, "a b", 1, "1", '5b', -x, 0.5
KeySources ==
    { [src |-> <<97>>, key |-> <<97>>],
      [src |-> <<DQUOTE, 97, 32, 98, DQUOTE>>, key |-> <<97, 32, 98>>],
      [src |-> <<49>>, key |-> <<49>>],
      [src |-> <<DQUOTE, 49, DQUOTE>>, key |-> <<49>>],
      [src |-> <<SQUOTE, 53, 98, SQUOTE>>, key |-> <<53, 98>>],
      [src |-> <<MINUS, 120>>, key |-> <<MINUS, 120>>],
      [src |-> <<48, DOT, 53>>, key |-> <<48, DOT, 53>>] }
\* {key:2}
KeyText(source) == <<LCURLY>> \o source.src \o <<COLON, 50, RCURLY>>
KeyTexts == {KeyText(source) : source \in KeySources}

\* tokens that start like a number and are none: -notanumber, 5.0b, 12x, -,
\* 1e5, -d, 1-2
InvalidNumbers ==
    { <<MINUS, 110, 111, 116, 97, 110, 117, 109, 98, 101, 114>>,
      <<53, DOT, 48, 98>>, <<49, 50, 120>>, <<MINUS>>, <<49, 101, 53>>, <<MINUS, 100>>,
      <<49, MINUS, 50>> }
\* the text after a value: the compound closed, closed after a space, or the
\* end of the input
ValueTails == {<<RCURLY>>, <<SPACE, RCURLY>>, <<>>}
\* {a:value followed by the tail
OpenValueText(value, tail) == <<LCURLY, 97, COLON>> \o value \o tail
InvalidNumberTexts ==
    {OpenValueText(value, tail) : value \in InvalidNumbers, tail \in ValueTails}

\* the texts between the quotes of quoted strings, written with escapes:
\* ab, a'b, b\nc, \"a'b, a\\b\tc\rd, \u00e9x, x\u0041, \', it\'s, a"b
DoubleQuotedBodies ==
    { <<97, 98>>,
      <<97, SQUOTE, 98>>,
      <<98, BACKSLASH, 110, 99>>,
      <<BACKSLASH, DQUOTE, 97, SQUOTE, 98>>,
      <<97, BACKSLASH, BACKSLASH, 98, BACKSLASH, 116, 99, BACKSLASH, 114, 100>>,
      <<BACKSLASH, 117, 48, 48, 101, 57, 120>>,
      <<120, BACKSLASH, 117, 48, 48, 52, 49>>,
      <<BACKSLASH, SQUOTE>> }
SingleQuotedBodies ==
    { <<97, 98>>,
      <<105, 116, BACKSLASH, SQUOTE, 115>>,
      <<97, DQUOTE, 98>>,
      <<BACKSLASH, 110, DQUOTE, 98>> }
\* {a:"body"} and {a:'body'}
QuotedText(quote, body) == ValueText(<<quote>> \o body \o <<quote>>)
QuotedTexts ==
    {QuotedText(DQUOTE, body) : body \in DoubleQuotedBodies}
    \cup {QuotedText(SQUOTE, body) : body \in SingleQuotedBodies}

\* unquoted tokens that hold whitespace or a structural character which the
\* delimiter of their place does not accept, or accepts only outside the
\* braces and brackets opened in the token.
\* values of a compound: b c, b:c, b;c, b]c, b[,]c, b{,}c
UnquotedValues ==
    { <<98, SPACE, 99>>, <<98, COLON, 99>>, <<98, SEMICOLON, 99>>, <<98, RSQUARE, 99>>,
      <<98, LSQUARE, COMMA, RSQUARE, 99>>, <<98, LCURLY, COMMA, RCURLY, 99>> }
\* keys of a compound: a b, a,b, a;b, a}b, a[:]b
UnquotedKeys ==
    { <<97, SPACE, 98>>, <<97, COMMA, 98>>, <<97, SEMICOLON, 98>>, <<97, RCURLY, 98>>,
      <<97, LSQUARE, COLON, RSQUARE, 98>> }
\* elements of a list after the first one: x y, x:y, x;y, x}y, x{]}y
UnquotedElements ==
    { <<120, SPACE, 121>>, <<120, COLON, 121>>, <<120, SEMICOLON, 121>>,
      <<120, RCURLY, 121>>, <<120, LCURLY, RSQUARE, RCURLY, 121>> }
\* {key:1}
UnquotedKeyText(key) == <<LCURLY>> \o key \o <<COLON, 49, RCURLY>>
\* {a:[z,element]}
UnquotedElementText(element) ==
    <<LCURLY, 97, COLON, LSQUARE, 122, COMMA>> \o element \o <<RSQUARE, RCURLY>>
\* {a:value,c:1}
UnquotedValueText(value) == <<LCURLY, 97, COLON>> \o value \o <<COMMA, 99, COLON, 49, RCURLY>>
UnquotedTexts ==
    {ValueText(value) : value \in UnquotedValues}
    \cup {UnquotedValueText(value) : value \in UnquotedValues}
    \cup {UnquotedKeyText(key) : key \in UnquotedKeys}
    \cup {UnquotedElementText(element) : element \in UnquotedElements}

\* unquoted values with backslashes, quotes, braces and brackets in them:
\* b\c, \b, b\, b"c"d, b"c", b'c', b{x}, b[1], b c
VerbatimValues ==
    { <<98, BACKSLASH, 99>>, <<BACKSLASH, 98>>, <<98, BACKSLASH>>,
      <<98, DQUOTE, 99, DQUOTE, 100>>, <<98, DQUOTE, 99, DQUOTE>>,
      <<98, SQUOTE, 99, SQUOTE>>, <<98, LCURLY, 120, RCURLY>>,
      <<98, LSQUARE, 49, RSQUARE>>, <<98, SPACE, 99>> }
\* the text between a value and the brace after it: nothing, or whitespace
Paddings == {<<>>, <<SPACE>>, <<SPACE, NEWLINE>>}
\* {a:value followed by the padding and }
PaddedValueText(value, padding) == OpenValueText(value, padding \o <<RCURLY>>)
VerbatimTexts ==
    {PaddedValueText(value, padding) : value \in VerbatimValues, padding \in Paddings}

\* what follows an opening quote when the input ends inside the string:
\* nothing, abc, abcdefghij, x\, abcdefghi\, \u00, abcdefghi\u00, abcdefghi\u00e9
OpenStrings ==
    { <<>>, <<97, 98, 99>>,
      <<97, 98, 99, 100, 101, 102, 103, 104, 105, 106>>,
      <<120, BACKSLASH>>,
      <<97, 98, 99, 100, 101, 102, 103, 104, 105, BACKSLASH>>,
      <<BACKSLASH, 117, 48, 48>>,
      <<97, 98, 99, 100, 101, 102, 103, 104, 105, BACKSLASH, 117, 48, 48>>,
      <<97, 98, 99, 100, 101, 102, 103, 104, 105, BACKSLASH, 117, 48, 48, 101, 57>> }
\* {a:"rest and {a:'rest, the input ending there
OpenQuoteText(quote, rest) == <<LCURLY, 97, COLON, quote>> \o rest
OpenQuoteTexts == {OpenQuoteText(quote, rest) : quote \in {DQUOTE, SQUOTE}, rest \in OpenStrings}

\* inputs that end inside a compound, with the byte offset of the innermost
\* brace left open: {  {a  {a:  {a:1  {a:1,  {a:1, (and a space)  {a:{b:1}
\* {a:{b:1  {a:{b:1,  {a:{b  {a:{b:"0123456789abcdef"  {a:{b:"0123456789abcdef",
OpenCompounds ==
    { [src |-> <<LCURLY>>, brace |-> 0],
      [src |-> <<LCURLY, 97>>, brace |-> 0],
      [src |-> <<LCURLY, 97, COLON>>, brace |-> 0],
      [src |-> <<LCURLY, 97, COLON, 49>>, brace |-> 0],
      [src |-> <<LCURLY, 97, COLON, 49, COMMA>>, brace |-> 0],
      [src |-> <<LCURLY, 97, COLON, 49, COMMA, SPACE>>, brace |-> 0],
      [src |-> <<LCURLY, 97, COLON, LCURLY, 98, COLON, 49, RCURLY>>, brace |-> 0],
      [src |-> <<LCURLY, 97, COLON, LCURLY, 98, COLON, 49>>, brace |-> 3],
      [src |-> <<LCURLY, 97, COLON, LCURLY, 98, COLON, 49, COMMA>>, brace |-> 3],
      [src |-> <<LCURLY, 97, COLON, LCURLY, 98>>, brace |-> 3],
      [src |-> <<LCURLY, 97, COLON, LCURLY, 98, COLON, DQUOTE>> \o [i \in 1..16 |-> 47 + i]
                  \o <<DQUOTE>>, brace |-> 3],
      [src |-> <<LCURLY, 97, COLON, LCURLY, 98, COLON, DQUOTE>> \o [i \in 1..16 |-> 47 + i]
                  \o <<DQUOTE, COMMA>>, brace |-> 3] }
OpenCompoundTexts == {open.src : open \in OpenCompounds}

\* typed arrays: the type specifiers B, I, L with the literal suffix and the
\* Rust element type of each
ArrayTypes ==
    { [spec |-> 66, kind |-> "Byte", type |-> "u8"],
      [spec |-> 73, kind |-> "Int", type |-> "i32"],
      [spec |-> 76, kind |-> "Long", type |-> "i64"] }
\* elements with the kind of literal each is and its value: 1, 2b, 4L are an
\* Int, a Byte and a Long literal; 1.0 and x are none of these
ArrayElementSources ==
    { [src |-> <<49>>, kind |-> "Int", value |-> 1],
      [src |-> <<50, 98>>, kind |-> "Byte", value |-> 2],
      [src |-> <<52, 76>>, kind |-> "Long", value |-> 4],
      [src |-> <<49, DOT, 48>>, kind |-> "Other", value |-> 0],
      [src |-> <<120>>, kind |-> "Other", value |-> 0] }
ArrayElementSeqs ==
    {<<a>> : a \in ArrayElementSources}
    \cup {<<a, b>> : a \in ArrayElementSources, b \in ArrayElementSources}
\* {a:[T;e1,e2 followed by the tail
ArrayText(type, elements, sep, tail) ==
    <<LCURLY, 97, COLON, LSQUARE, type.spec, SEMICOLON>>
        \o Joined(elements, Len(elements) - 1, sep) \o elements[Len(elements)].src \o tail
ArrayTexts ==
    {ArrayText(type, elements, sep, tail) : type \in ArrayTypes, elements \in ArrayElementSeqs,
                                            sep \in Separators, tail \in ListTails}

\* compounds and typed arrays with a comma that is not between two entries:
\* {,a:1}  { , a:1}  {a:1,,b:2}  {a:1, ,b:2}  {,}  {a:[I;,1]}  {a:[I;1,,2]}
\* {a:[B; , 1]}  {a:[L;,]}  {a:{,b:1}}
MisplacedCommaTexts ==
    { <<LCURLY, COMMA, 97, COLON, 49, RCURLY>>,
      <<LCURLY, SPACE, COMMA, SPACE, 97, COLON, 49, RCURLY>>,
      <<LCURLY, 97, COLON, 49, COMMA, COMMA, 98, COLON, 50, RCURLY>>,
      <<LCURLY, 97, COLON, 49, COMMA, SPACE, COMMA, 98, COLON, 50, RCURLY>>,
      <<LCURLY, COMMA, RCURLY>>,
      <<LCURLY, 97, COLON, LSQUARE, 73, SEMICOLON, COMMA, 49, RSQUARE, RCURLY>>,
      <<LCURLY, 97, COLON, LSQUARE, 73, SEMICOLON, 49, COMMA, COMMA, 50, RSQUARE, RCURLY>>,
      <<LCURLY, 97, COLON, LSQUARE, 66, SEMICOLON, SPACE, COMMA, SPACE, 49, RSQUARE, RCURLY>>,
      <<LCURLY, 97, COLON, LSQUARE, 76, SEMICOLON, COMMA, RSQUARE, RCURLY>>,
      <<LCURLY, 97, COLON, LCURLY, COMMA, 98, COLON, 49, RCURLY, RCURLY>> }
\* the same with every comma between two entries, and the compound each
\* denotes: {a:1,b:2}  {a:[I;1,2]}  {a:[B;1]}  {a:{b:1}}
SeparatedSources ==
    { [src |-> <<LCURLY, 97, COLON, 49, COMMA, 98, COLON, 50, RCURLY>>,
       val |-> NbtCompoundInsert(Compound1(NameA, TagInt(1)), <<98>>, TagInt(2))],
      [src |-> <<LCURLY, 97, COLON, LSQUARE, 73, SEMICOLON, 49, COMMA, 50, RSQUARE, RCURLY>>,
       val |-> Compound1(NameA, TagIntArray(<<1, 2>>))],
      [src |-> <<LCURLY, 97, COLON, LSQUARE, 66, SEMICOLON, 49, RSQUARE, RCURLY>>,
       val |-> Compound1(NameA, TagByteArray(<<1>>))],
      [src |-> <<LCURLY, 97, COLON, LCURLY, 98, COLON, 49, RCURLY, RCURLY>>,
       val |-> Compound1(NameA, TagCompound(Compound1(<<98>>, TagInt(1))))] }
CommaTexts == MisplacedCommaTexts \cup {source.src : source \in SeparatedSources}

\* texts between quotes that read like numbers, and two that do not:
\* 5, -5, 5b, 1.5, 2.5f, -x, -, 12x, abc, B
NumberLikeBodies ==
    { <<53>>, <<MINUS, 53>>, <<53, 98>>, <<49, DOT, 53>>, <<50, DOT, 53, 102>>,
      <<MINUS, 120>>, <<MINUS>>, <<49, 50, 120>>, <<97, 98, 99>>, <<66>> }
\* {a:["B";1]}: a typed array whose type specifier is written in quotes
QuotedSpecifierText(quote, specifier) ==
    ValueText(<<LSQUARE, quote, specifier, quote, SEMICOLON, 49, RSQUARE>>)
QuotedTokenTexts ==
    {QuotedText(quote, body) : quote \in {DQUOTE, SQUOTE}, body \in NumberLikeBodies}
    \cup {QuotedSpecifierText(quote, specifier)
          : quote \in {DQUOTE, SQUOTE}, specifier \in {66, 73, 76, 98}}

\* the strings written for single constructs of the syntax
\* integer literals outside the range of their tag, with the tag the
\* truncation of the two's complement to 8, 16 or 32 bits gives: 300b, -129b,
\* 128B, 127b, 70000s, -32769s, 32768S, 2147483647, 2147483648, 4294967301,
\* -2147483649, i64::MAX, i64::MIN, i64::MAX with b, i64::MIN with s
NarrowedLiterals ==
    { [src |-> <<51, 48, 48, 98>>,
       tag |-> TagByte(44)],
      [src |-> <<45, 49, 50, 57, 98>>,
       tag |-> TagByte(127)],
      [src |-> <<49, 50, 56, 66>>,
       tag |-> TagByte(0 - 128)],
      [src |-> <<49, 50, 55, 98>>,
       tag |-> TagByte(127)],
      [src |-> <<55, 48, 48, 48, 48, 115>>,
       tag |-> TagShort(4464)],
      [src |-> <<45, 51, 50, 55, 54, 57, 115>>,
       tag |-> TagShort(32767)],
      [src |-> <<51, 50, 55, 54, 56, 83>>,
       tag |-> TagShort(0 - 32768)],
      [src |-> <<50, 49, 52, 55, 52, 56, 51, 54, 52, 55>>,
       tag |-> TagInt(2147483647)],
      [src |-> <<50, 49, 52, 55, 52, 56, 51, 54, 52, 56>>,
       tag |-> TagInt(0 - 2147483647 - 1)],
      [src |-> <<52, 50, 57, 52, 57, 54, 55, 51, 48, 49>>,
       tag |-> TagInt(5)],
      [src |-> <<45, 50, 49, 52, 55, 52, 56, 51, 54, 52, 57>>,
       tag |-> TagInt(2147483647)],
      [src |-> <<57, 50, 50, 51, 51, 55, 50, 48, 51, 54, 56, 53, 52, 55, 55, 53, 56, 48, 55>>,
       tag |-> TagInt(0 - 1)],
      [src |-> <<45, 57, 50, 50, 51, 51, 55, 50, 48, 51, 54, 56, 53, 52, 55, 55, 53, 56, 48, 56>>,
       tag |-> TagInt(0)],
      [src |-> <<57, 50, 50, 51, 51, 55, 50, 48, 51, 54, 56, 53, 52, 55, 55, 53, 56, 48, 55, 98>>,
       tag |-> TagByte(0 - 1)],
      [src |-> <<45, 57, 50, 50, 51, 51, 55, 50, 48, 51, 54, 56, 53, 52, 55, 55, 53, 56, 48, 56, 115>>,
       tag |-> TagShort(0)] }
\* the same inside typed arrays: [B;300]  [B;-129,128]  [B;70000s]
\* [I;4294967301]  [I;2147483648,1]  [I;300b]  [I;i64::MAX L]  [B;i64::MIN]
NarrowedArrays ==
    { [src |-> <<91, 66, 59, 51, 48, 48, 93>>,
       tag |-> TagByteArray(<<44>>)],
      [src |-> <<91, 66, 59, 45, 49, 50, 57, 44, 49, 50, 56, 93>>,
       tag |-> TagByteArray(<<127, 0 - 128>>)],
      [src |-> <<91, 66, 59, 55, 48, 48, 48, 48, 115, 93>>,
       tag |-> TagByteArray(<<112>>)],
      [src |-> <<91, 73, 59, 52, 50, 57, 52, 57, 54, 55, 51, 48, 49, 93>>,
       tag |-> TagIntArray(<<5>>)],
      [src |-> <<91, 73, 59, 50, 49, 52, 55, 52, 56, 51, 54, 52, 56, 44, 49, 93>>,
       tag |-> TagIntArray(<<0 - 2147483647 - 1, 1>>)],
      [src |-> <<91, 73, 59, 51, 48, 48, 98, 93>>,
       tag |-> TagIntArray(<<300>>)],
      [src |-> <<91, 73, 59, 57, 50, 50, 51, 51, 55, 50, 48, 51, 54, 56, 53, 52, 55, 55, 53, 56, 48, 55, 76, 93>>,
       tag |-> TagIntArray(<<0 - 1>>)],
      [src |-> <<91, 66, 59, 45, 57, 50, 50, 51, 51, 55, 50, 48, 51, 54, 56, 53, 52, 55, 55, 53, 56, 48, 56, 93>>,
       tag |-> TagByteArray(<<0>>)] }
\* integer literals outside the range of i64: i64::MAX + 1, i64::MIN - 1,
\* twenty nines, i64::MAX + 1 with b, 2^64 with s, 24 digits with L
OverflowLiterals ==
    { <<57, 50, 50, 51, 51, 55, 50, 48, 51, 54, 56, 53, 52, 55, 55, 53, 56, 48, 56>>,
      <<45, 57, 50, 50, 51, 51, 55, 50, 48, 51, 54, 56, 53, 52, 55, 55, 53, 56, 48, 57>>,
      <<57, 57, 57, 57, 57, 57, 57, 57, 57, 57, 57, 57, 57, 57, 57, 57, 57, 57, 57, 57>>,
      <<57, 50, 50, 51, 51, 55, 50, 48, 51, 54, 56, 53, 52, 55, 55, 53, 56, 48, 56, 98>>,
      <<49, 56, 52, 52, 54, 55, 52, 52, 48, 55, 51, 55, 48, 57, 53, 53, 49, 54, 49, 54, 115>>,
      <<49, 50, 51, 52, 53, 54, 55, 56, 57, 48, 49, 50, 51, 52, 53, 54, 55, 56, 57, 48, 49, 50, 51, 52, 76>> }
\* {a:[T;literal followed by the tail
OverflowArrayText(spec, literal, tail) ==
    <<LCURLY, 97, COLON, LSQUARE, spec, SEMICOLON>> \o literal \o tail
NarrowingTexts ==
    {ValueText(source.src) : source \in NarrowedLiterals \cup NarrowedArrays}
        \cup {OpenValueText(literal, tail) : literal \in OverflowLiterals, tail \in ValueTails}
        \cup {OverflowArrayText(spec, literal, tail) :
                 spec \in {66, 73}, literal \in OverflowLiterals, tail \in ListTails}

ConstructTexts ==
    NumberTexts \cup ListTexts \cup TrailingCommaTexts \cup KeyTexts \cup InvalidNumberTexts
        \cup QuotedTexts \cup UnquotedTexts \cup VerbatimTexts \cup OpenQuoteTexts
        \cup OpenCompoundTexts \cup ArrayTexts \cup CommaTexts \cup QuotedTokenTexts
            \cup NarrowingTexts

\* a tree about to be printed and parsed back
InitSnbtTree ==
    /\ pc = "format"
    /\ api = "none"
    /\ root \in SnbtRoots
    /\ root_name = None
    /\ writer = <<>>
    /\ wres = Unset
    /\ rres = NoRes
    /\ text = <<>>
    /\ pres = NoRes
    /\ frames = <<>>

\* a string from elsewhere about to be parsed
InitText ==
    /\ pc = "parse"
    /\ api = "none"
    /\ root = NbtCompoundNew
    /\ root_name = None
    /\ writer = <<>>
    /\ wres = Unset
    /\ rres = NoRes
    /\ text \in Texts \cup ConstructTexts
    /\ pres = NoRes
    /\ frames = <<>>

InitSnbt == InitSnbtTree \/ InitText

\* text = root.to_snbt()
ToSnbt ==
    /\ pc = "format"
    /\ text' \in to_snbt(root)
    /\ pc' = "parse"
    /\ api' = "snbt"
    /\ UNCHANGED <<root, root_name, writer, wres, rres, pres, frames>>

\* text = root.to_pretty_snbt()
ToPrettySnbt ==
    /\ pc = "format"
    /\ text' \in to_pretty_snbt(root)
    /\ pc' = "parse"
    /\ api' = "pretty_snbt"
    /\ UNCHANGED <<root, root_name, writer, wres, rres, pres, frames>>

\* snbt::parse(&text)
Parse ==
    /\ pc = "parse"
    /\ pres' = parse(text)
    /\ pc' = "done"
    /\ UNCHANGED <<api, root, root_name, writer, wres, rres, text, frames>>

\* snbt::parse(&(text + garbage)), after text has been parsed
ParseWithGarbage ==
    /\ pc = "done"
    /\ \E garbage \in Garbages :
          /\ text' = text \o garbage
          /\ pres' = parse(text \o garbage)
    /\ pc' = "garbage"
    /\ UNCHANGED <<api, root, root_name, writer, wres, rres, frames>>

NextSnbt == ToSnbt \/ ToPrettySnbt \/ Parse \/ ParseWithGarbage

SpecSnbt == InitSnbt /\ [][NextSnbt]_vars

-----------------------------------------------------------------------------
(* The lexer called token by token, as the parser calls it.  Here `text`   *)
(* is the input of Lexer::new, `pres` the item the last call returned      *)
(* together with the lexer it left (pres.lx), `api` the last call, and     *)
(* `rres` the call before it with the item that one returned.              *)

\* the delimiters the parser passes to peek and next
Delimiters ==
    {None, Some({COLON}), Some({COMMA, RCURLY}), Some({COMMA, RSQUARE}),
     Some({COMMA, RSQUARE, SEMICOLON})}

\* inputs of the lexer: the base strings and  {a: [ x , y ]}  {a:"b  {a:-x,b:1}
LexerTexts ==
    BaseTexts
        \cup { <<LCURLY, 97, COLON, SPACE, LSQUARE, SPACE, 120, SPACE, COMMA, SPACE, 121,
                 SPACE, RSQUARE, RCURLY>>,
               <<LCURLY, 97, COLON, DQUOTE, 98>>,
               <<LCURLY, 97, COLON, MINUS, 120, COMMA, 98, COLON, 49, RCURLY>> }

\* Lexer::new(text): no call yet
PNew(lx) == [res |-> "New", val |-> <<>>, lx |-> lx, err |-> NoSnbtError]
NoCall == [api |-> "none", item |-> NoRes]

InitLexer ==
    /\ pc = "lex"
    /\ api = "none"
    /\ root = NbtCompoundNew
    /\ root_name = None
    /\ writer = <<>>
    /\ wres = Unset
    /\ rres = NoCall
    /\ text \in LexerTexts
    /\ pres = PNew(LexerNew)
    /\ frames = <<>>

\* the parser stops at the first error: an error is followed by a call only
\* when it was peeked and is now taken with next
CanCall ==
    \/ pres.res \in {"New", "Ok", "None"}
    \/ api = "peek" /\ pres.res = "Err"

\* tokens.peek(delimiter)
LexPeek ==
    /\ pc = "lex"
    /\ CanCall
    /\ \E delimiter \in Delimiters : pres' = LexerPeek(text, pres.lx, delimiter)
    /\ api' = "peek"
    /\ rres' = [api |-> api, item |-> pres]
    /\ UNCHANGED <<pc, root, root_name, writer, wres, text, frames>>

\* tokens.next(delimiter)
LexNext ==
    /\ pc = "lex"
    /\ CanCall
    /\ \E delimiter \in Delimiters : pres' = LexerNext(text, pres.lx, delimiter)
    /\ api' = "next"
    /\ rres' = [api |-> api, item |-> pres]
    /\ UNCHANGED <<pc, root, root_name, writer, wres, text, frames>>

NextLexer == LexPeek \/ LexNext

SpecLexer == InitLexer /\ [][NextLexer]_vars

-----------------------------------------------------------------------------
(* The lexer and the parser followed through their loops.  A call of       *)
(* Lexer::next that reaches slurp_token is followed turn by turn of the    *)
(* loop of slurp_token, and a call of snbt::parse turn by turn of the      *)
(* loops of parse_compound_tag, parse_tag_list and parse_prim_list.  While *)
(* a call is in progress `pres` holds the lexer (pres.lx) and `frames` the *)
(* locals of the calls in progress.                                        *)

\* a call in progress
PCall(lx) == [res |-> "Call", val |-> <<>>, lx |-> lx, err |-> NoSnbtError]

\* Lexer::new(text) and the call of snbt::parse(text)
InitParse ==
    /\ pc = "begin"
    /\ api = "none"
    /\ root = NbtCompoundNew
    /\ root_name = None
    /\ writer = <<>>
    /\ wres = Unset
    /\ rres = NoCall
    /\ text \in Texts \cup ConstructTexts
    /\ pres = PNew(LexerNew)
    /\ frames = <<>>

InitTurns == InitLexer \/ InitParse

\* tokens.next(delimiter) up to the loop of slurp_token: the whitespace is
\* skipped, the next character starts no single-character token, and
\* slurp_token has read it
SlurpTokenBegin ==
    /\ pc = "lex"
    /\ CanCall
    /\ pres.lx.peeked = None
    /\ ~AtEnd(text, SkipWhitespace(text, pres.lx))
    /\ ~IsSingleCharToken(text[SkipWhitespace(text, pres.lx).pos])
    /\ \E delimiter \in Delimiters :
          frames' = <<SlurpFrame(text, SkipWhitespace(text, pres.lx), delimiter)>>
    /\ pres' = PCall(next_ch(text, SkipWhitespace(text, pres.lx)))
    /\ pc' = "slurp"
    /\ api' = "next"
    /\ rres' = [api |-> api, item |-> pres]
    /\ UNCHANGED <<root, root_name, writer, wres, text>>

\* one turn of the loop of slurp_token; the turn that leaves the loop
\* returns the item of tokens.next
SlurpTokenLoop ==
    /\ pc = "slurp"
    /\ IF SlurpTurn(text, pres.lx, frames[1]).result = None
       THEN /\ pres' = PCall(SlurpTurn(text, pres.lx, frames[1]).lx)
            /\ frames' = SlurpTurn(text, pres.lx, frames[1]).frames
            /\ pc' = pc
       ELSE /\ pres' = SlurpTurn(text, pres.lx, frames[1]).result[2]
            /\ frames' = <<>>
            /\ pc' = "lex"
    /\ UNCHANGED <<api, root, root_name, writer, wres, rres, text>>

\* snbt::parse up to the loop of parse_compound_tag
ParseBegin ==
    /\ pc = "begin"
    /\ IF assert_next(text, LexerNew, "OpenCurly").res # "Ok"
       THEN /\ pres' = assert_next(text, LexerNew, "OpenCurly")
            /\ frames' = <<>>
            /\ pc' = "parsed"
       ELSE /\ pres' = PCall(assert_next(text, LexerNew, "OpenCurly").lx)
            /\ frames' = <<CompoundFrame(assert_next(text, LexerNew, "OpenCurly").val)>>
            /\ pc' = "loop"
    /\ UNCHANGED <<api, root, root_name, writer, wres, rres, text>>

\* the state after one turn of a loop of the parser: the loop of the call
\* on top of the stack goes on, or parse returns
AfterTurn(turn) ==
    /\ IF turn.result = None
       THEN /\ pres' = PCall(turn.lx)
            /\ frames' = turn.frames
            /\ pc' = pc
       ELSE /\ pres' = turn.result[2]
            /\ frames' = <<>>
            /\ pc' = "parsed"
    /\ UNCHANGED <<api, root, root_name, writer, wres, rres, text>>

\* one turn of the loop of parse_compound_tag
ParseCompoundLoop ==
    /\ pc = "loop"
    /\ Top(frames).fn = "parse_compound_tag"
    /\ AfterTurn(CompoundLoop(text, frames, pres.lx))

\* one turn of the loop of parse_tag_list
ParseTagListLoop ==
    /\ pc = "loop"
    /\ Top(frames).fn = "parse_tag_list"
    /\ AfterTurn(TagListLoop(text, frames, pres.lx))

\* one turn of the loop of parse_prim_list
ParsePrimListLoop ==
    /\ pc = "loop"
    /\ Top(frames).fn = "parse_prim_list"
    /\ AfterTurn(PrimListLoop(text, frames, pres.lx))

ParseLoop == ParseCompoundLoop \/ ParseTagListLoop \/ ParsePrimListLoop

NextTurns ==
    \/ LexPeek
    \/ LexNext
    \/ SlurpTokenBegin
    \/ SlurpTokenLoop
    \/ ParseBegin
    \/ ParseCompoundLoop
    \/ ParseTagListLoop
    \/ ParsePrimListLoop

\* A call in progress is not abandoned: the thread that made it runs on, so
\* the call takes its next turn.  This is weak fairness of the turns; a call
\* in progress can always take a turn, so "the turn is enabled" is written
\* as the position the call is at.
SlurpTokenRuns ==
    \/ []<>(pc # "slurp")
    \/ []<><<SlurpTokenLoop>>_vars
ParseRuns ==
    \/ []<>(pc \notin {"begin", "loop"})
    \/ []<><<ParseBegin \/ ParseLoop>>_vars

SpecTurns ==
    /\ InitTurns
    /\ [][NextTurns]_vars
    /\ SlurpTokenRuns
    /\ ParseRuns


-----------------------------------------------------------------------------
(* Compounds whose input names an entry more than once.  An input is a     *)
(* sequence of entries; the same sequence is given to read_nbt as a byte   *)
(* stream and to snbt::parse as a string.                                  *)

\* the longest sequence of entries of an input
MaxRepeats == 3

\* the values of the entries: their SNBT source, their tag and the bytes of
\* their body.  1, x and the compound {a:1,a:x}, which itself names "a" twice
RepeatValues ==
    { [src |-> <<49>>, tag |-> TagInt(1), bytes |-> <<0, 0, 0, 1>>],
      [src |-> <<120>>, tag |-> TagString(<<120>>), bytes |-> <<0, 1, 120>>],
      [src |-> <<LCURLY, 97, COLON, 49, COMMA, 97, COLON, 120, RCURLY>>,
       tag |-> TagCompound([k \in {NameA} |-> TagString(<<120>>)]),
       bytes |-> <<3, 0, 1, 97, 0, 0, 0, 1, 8, 0, 1, 97, 0, 1, 120, 0>>] }
\* the entries: a value under the name "a" or "b"
RepeatEntries == {[name |-> name, value |-> value] : name \in {NameA, <<98>>}, value \in RepeatValues}
RepeatInputs == SeqsUpTo(RepeatEntries, MaxRepeats)

\* the stream of the entries: root header, each entry as ID, name and body,
\* TAG_End
RECURSIVE EntriesBytes(_, _)
EntriesBytes(entries, i) ==
    IF i > Len(entries) THEN <<>>
    ELSE <<id_for_tag(entries[i].value.tag), 0, 1>> \o entries[i].name
            \o entries[i].value.bytes \o EntriesBytes(entries, i + 1)
EntriesStream(entries) == <<10, 0, 0>> \o EntriesBytes(entries, 1) \o <<TAG_End>>
\* the string of the entries: {name:value,name:value}
RECURSIVE EntriesSource(_, _)
EntriesSource(entries, i) ==
    IF i > Len(entries) THEN <<>>
    ELSE (IF i > 1 THEN <<COMMA>> ELSE <<>>) \o entries[i].name \o <<COLON>>
            \o entries[i].value.src \o EntriesSource(entries, i + 1)
EntriesText(entries) == <<LCURLY>> \o EntriesSource(entries, 1) \o <<RCURLY>>
StreamOf == [entries \in RepeatInputs |-> EntriesStream(entries)]
TextOf == [entries \in RepeatInputs |-> EntriesText(entries)]

\* a sequence of entries about to be read as a stream or parsed as a string
InitRepeated ==
    /\ api = "none"
    /\ root = NbtCompoundNew
    /\ root_name = None
    /\ wres = Unset
    /\ rres = NoRes
    /\ pres = NoRes
    /\ frames = <<>>
    /\ \E entries \in RepeatInputs :
          \/ pc = "read" /\ writer = StreamOf[entries] /\ text = <<>>
          \/ pc = "parse" /\ writer = <<>> /\ text = TextOf[entries]

NextRepeated == ReadNbt \/ Parse

SpecRepeated == InitRepeated /\ [][NextRepeated]_vars

-----------------------------------------------------------------------------
(* Properties of the binary writer and reader *)

\* every list of the tree holds elements of one tag type, at every depth
RECURSIVE Homogeneous(_)
Homogeneous(tag) ==
    CASE id_for_tag(tag) = 9 ->
            \A i \in 1..Len(Payload(tag)) :
                /\ id_for_tag(Payload(tag)[i]) = id_for_tag(Payload(tag)[1])
                /\ Homogeneous(Payload(tag)[i])
      [] id_for_tag(tag) = 10 ->
            \A name \in DOMAIN Payload(tag) : Homogeneous(Payload(tag)[name])
      [] OTHER -> TRUE

\* the root name as read_nbt returns it
NameOrEmpty(name) == IF name = None THEN <<>> ELSE name[2]

\* C1: a compound with homogeneous lists that io::write_nbt wrote is read
\* back by read_nbt as an equal compound with the same root name
C1_BinaryRoundTrip ==
    (pc = "done" /\ api = "io" /\ Homogeneous(TagCompound(root)))
        => /\ wres = NoErr
           /\ rres.res = "Ok"
           /\ rres.val = <<root, NameOrEmpty(root_name)>>

\* the bytes io::write_nbt puts before the body of the only entry "a"
HeaderOfA ==
    write_u8(10) \o write_string(NameOrEmpty(root_name))
        \o write_u8(id_for_tag(root[NameA])) \o write_string(NameA)

IsArrayRoot == DOMAIN root = {NameA} /\ id_for_tag(root[NameA]) \in {7, 11, 12}

ElementSize(id) == CASE id = 7 -> 1 [] id = 11 -> 4 [] id = 12 -> 8

\* C9: an array of n elements is written as a 32-bit count and n elements,
\* 4 + n * element size bytes in all, and the reader consumes that layout
C9_ArrayLayout ==
    (pc # "write" /\ api = "io" /\ IsArrayRoot)
        => LET n == Len(Payload(root[NameA]))
               size == ElementSize(id_for_tag(root[NameA]))
               at == Len(HeaderOfA)
           IN  /\ wres = NoErr
               /\ Len(writer) = at + 4 + (n * size) + 1
               /\ Take(writer, at, 4) = write_i32(n)
               /\ pc = "done" => rres.res = "Ok" /\ rres.pos = Len(writer)

IsByteShort == pc # "write" /\ api = "io" /\ root = ByteShort /\ root_name = None

\* C8 as stated: the compound {"byte": 12, "short": 32} is written as exactly
\* the bytes with the entry "byte" first
C8_ExactBytes == IsByteShort => writer = ByteShortBytes

\* C8: the compound {"byte": 12, "short": 32} is written as tag 0x0A, an
\* empty root name, the two entries (tag ID, name, big-endian payload) in
\* either order, and one End byte
C8_BytesUpToEntryOrder ==
    IsByteShort => wres = NoErr /\ writer \in {ByteShortBytes, ShortByteBytes}

C8_Witness == IsByteShort /\ writer = ByteShortBytes

\* C3: read_nbt returns Ok or a typed error for every stream; it never panics
C3_ReadTotal == pc = "done" => rres.res \in {"Ok", "Err"}

\* C5: a stream whose first byte is not 0x0A fails with TagTypeMismatch(0x0A,
\* that byte) when only that byte has been read, and returns no value
C5_RootTagCheck ==
    (pc = "done" /\ writer # <<>> /\ writer[1] # 10)
        => rres = RErr(TagTypeMismatch(10, writer[1]), 1)

C5_Witness ==
    /\ pc = "done"
    /\ Len(writer) > 3
    /\ writer[1] = 9
    /\ rres.err = TagTypeMismatch(10, 9)

IsEmptyListRoot == api = "io" /\ DOMAIN root = {NameA} /\ root[NameA] = TagList(<<>>)

\* the element type byte and the count of a stream of ListStreams
ListTypeByte == writer[Len(EntryA(9)) + 1]
ListCount == from_be_i32(Take(writer, Len(EntryA(9)) + 1, 4))

\* C7: an empty list is written as the type byte 0x00 and a zero count and
\* read back as an empty list; the reader returns an empty list for a zero
\* count with any type byte in 0x00..0x0C, and fails with InvalidTagId for a
\* type byte above 0x0C or for 0x00 with a nonzero count
C7_EmptyListCoercion ==
    /\ (pc # "write" /\ IsEmptyListRoot)
          => /\ wres = NoErr
             /\ writer = HeaderOfA \o <<0, 0, 0, 0, 0>> \o <<TAG_End>>
             /\ pc = "done" => rres = ROk(<<root, NameOrEmpty(root_name)>>, Len(writer))
    /\ (pc = "done" /\ api = "none" /\ writer \in ListStreams)
          => /\ (ListTypeByte <= 12 /\ ListCount = 0)
                   => rres = ROk(<<Compound1(NameA, TagList(<<>>)), <<>>>>, Len(writer))
             /\ (ListTypeByte > 12 \/ (ListTypeByte = 0 /\ ListCount # 0))
                   => rres.res = "Err" /\ rres.err = InvalidTagId(ListTypeByte)

C7_Witness ==
    /\ pc = "done"
    /\ IsEmptyListRoot
    /\ Take(writer, Len(HeaderOfA), 5) = <<0, 0, 0, 0, 0>>
    /\ rres.res = "Ok"
    /\ rres.val[1][NameA] = TagList(<<>>)

IsStringRoot == api = "io" /\ DOMAIN root = {NameA} /\ id_for_tag(root[NameA]) = 8

\* C10: a string of exactly u16::MAX encoded bytes is written and read back
\* unchanged, and whenever a write succeeds the 16-bit length prefix of the
\* string equals the number of string bytes that follow it
C10_StringBoundary ==
    (pc # "write" /\ IsStringRoot)
        => LET at == Len(HeaderOfA)
               prefix == from_be_u16(Take(writer, at, 2))
           IN  /\ wres = NoErr => prefix = Len(writer) - (at + 2) - 1
               /\ (pc = "done" /\ Len(to_java_cesu8(Payload(root[NameA]))) = U16Max)
                     => /\ wres = NoErr
                        /\ rres = ROk(<<root, NameOrEmpty(root_name)>>, Len(writer))

\* C6: under a checked writer (io::write_nbt, the serde Serializer) a tree
\* holding, at any depth, a list with an element whose tag ID differs from
\* the first element's is refused with NonHomogenousList; the unchecked
\* serializer never fails.
C6_HomogeneityEnforced ==
    /\ (pc # "write" /\ api \in {"io", "serde"} /\ ~Homogeneous(TagCompound(root)))
          => wres = NonHomogenousList
    /\ (pc # "write" /\ api = "serde_unchecked") => wres = NoErr

\* the bytes of a tag body that write_tag_body writes in full
WrittenBody(tag) == (CHOOSE out \in write_tag_body(tag) : out.err = NoErr).bytes
RECURSIVE WrittenBodies(_, _)
WrittenBodies(value, n) ==
    IF n = 0 THEN <<>> ELSE WrittenBodies(value, n - 1) \o WrittenBody(value[n])
\* the first element of a list that stops the writer: its tag ID is not the
\* first element's, or it holds a list that stops the writer
FirstFailing(value) ==
    CHOOSE i \in 1..Len(value) :
        /\ id_for_tag(value[i]) # id_for_tag(value[1]) \/ ~Homogeneous(value[i])
        /\ \A j \in 1..(i - 1) :
              id_for_tag(value[j]) = id_for_tag(value[1]) /\ Homogeneous(value[j])
\* the entry that stops the writer, in a compound of one entry
FailingEntry(compound) == CHOOSE name \in DOMAIN compound : ~Homogeneous(compound[name])
\* the bytes C24 keeps in the writer for the body of a tag that holds a list
\* with a mismatch: of a list its element-type byte, its full count, the
\* bodies of the elements before the failing one and what was written of
\* that one; of a compound of one entry the entry's header and what was
\* written of its body
RECURSIVE WrittenBeforeFailure(_)
WrittenBeforeFailure(tag) ==
    IF id_for_tag(tag) = 9
    THEN write_u8(id_for_tag(Payload(tag)[1])) \o write_i32(Len(Payload(tag)))
            \o WrittenBodies(Payload(tag), FirstFailing(Payload(tag)) - 1)
            \o (IF id_for_tag(Payload(tag)[FirstFailing(Payload(tag))])
                      # id_for_tag(Payload(tag)[1])
                THEN <<>>
                ELSE WrittenBeforeFailure(Payload(tag)[FirstFailing(Payload(tag))]))
    ELSE write_u8(id_for_tag(Payload(tag)[FailingEntry(Payload(tag))]))
            \o write_string(FailingEntry(Payload(tag)))
            \o WrittenBeforeFailure(Payload(tag)[FailingEntry(Payload(tag))])
\* the entries order[1] .. order[n] written in full
RECURSIVE WrittenEntries(_, _, _)
WrittenEntries(compound, order, n) ==
    IF n = 0 THEN <<>>
    ELSE WrittenEntries(compound, order, n - 1)
            \o write_u8(id_for_tag(compound[order[n]])) \o write_string(order[n])
            \o WrittenBody(compound[order[n]])
\* the place of the entry "a" in an iteration order
PlaceOfA(order) == CHOOSE i \in 1..Len(order) : order[i] = NameA

\* C24: when write_nbt fails with NonHomogenousList, the writer holds what
\* was written before the failure and nothing else: the root header, the
\* entries before the failing one, the header of the failing entry, the
\* list's element-type byte and full count and the bodies of the elements
\* before the mismatch; no byte is taken back and none, no End byte either,
\* follows.
C24_NoRetraction ==
    (pc # "write" /\ api = "io" /\ NameA \in DOMAIN root /\ ~Homogeneous(root[NameA]))
        => /\ wres = NonHomogenousList
           /\ \E order \in Orders(DOMAIN root) :
                 writer = write_u8(10) \o write_string(NameOrEmpty(root_name))
                            \o WrittenEntries(root, order, PlaceOfA(order) - 1)
                            \o write_u8(id_for_tag(root[NameA])) \o write_string(NameA)
                            \o WrittenBeforeFailure(root[NameA])

\* the list [Byte(1), Short(2)] was refused after a filler entry was written:
\* the writer ends with the list's header 01 00 00 00 02 and the body 01
C24_Witness ==
    /\ pc = "read"
    /\ api = "io"
    /\ wres = NonHomogenousList
    /\ root = NbtCompoundInsert(Compound1(NameA, TagList(<<TagByte(1), TagShort(2)>>)),
                                <<98>>, TagByte(12))
    /\ writer = <<10, 0, 0, 1, 0, 1, 98, 12, 9, 0, 1, 97, 1, 0, 0, 0, 2, 1>>

\* C27: reading a stream that ends before its root compound is complete,
\* after any number of bytes, ends with the I/O error of read_exact
\* (NbtIoError::StdIo, unexpected end of stream); no tree is returned.
C27_TruncatedStream ==
    \A s \in BaseStreams : \A k \in 0..(Len(s) - 1) :
        (pc = "done" /\ api = "none" /\ writer = SubSeq(s, 1, k))
            => rres = RErr(StdIoEof, rres.pos)

\* the stream of {"byte": Byte(12), "short": Short(32)} cut inside the name
\* "short" has been read up to the length of that name
C27_Witness ==
    /\ pc = "done"
    /\ api = "none"
    /\ writer = SubSeq(ByteShortBytes, 1, 16)
    /\ rres = RErr(StdIoEof, 14)

-----------------------------------------------------------------------------
(* Properties of the SNBT printer and parser *)

\* C2: a tree printed by to_snbt or by to_pretty_snbt parses back, and the
\* parser returns the tree that was printed (a String that looks like a
\* number comes back as that String).
C2_SnbtRoundTrip ==
    (pc = "done" /\ api \in {"snbt", "pretty_snbt"})
        => (pres.res = "Ok" /\ pres.val = root)

\* C4: snbt::parse returns Ok or an SnbtError on every input: it never
\* panics on a byte index outside the input or inside a character.
C4_ParseTotal == pc = "done" => pres.res \in {"Ok", "Err"}

\* the tag the SNBT syntax assigns to a number literal by its suffix: b Byte,
\* s Short, l Long, f Float, d Double; without a suffix Int, or Double when
\* the literal holds a '.'
LiteralValue(body) ==
    IF body[1] = MINUS THEN 0 - DigitsValue(Tail(body)) ELSE DigitsValue(body)
SuffixTag(body, suffix) ==
    CASE suffix \in {<<98>>, <<66>>} -> TagByte(LiteralValue(body))
      [] suffix \in {<<115>>, <<83>>} -> TagShort(LiteralValue(body))
      [] suffix \in {<<108>>, <<76>>} -> TagLong(LiteralValue(body))
      [] suffix \in {<<102>>, <<70>>} ->
            TagFloat(IF body \in DecimalBodies THEN ParseF64(body)[2]
                     ELSE Normalize(LiteralValue(body), 0))
      [] suffix \in {<<100>>, <<68>>} ->
            TagDouble(IF body \in DecimalBodies THEN ParseF64(body)[2]
                      ELSE Normalize(LiteralValue(body), 0))
      [] OTHER ->
            IF body \in DecimalBodies THEN TagDouble(ParseF64(body)[2])
            ELSE TagInt(LiteralValue(body))

\* an integer literal takes every suffix, a literal with a '.' only f and d
IsNumber(body, suffix) ==
    body \in IntegerBodies \/ suffix \in {<<>>, <<102>>, <<70>>, <<100>>, <<68>>}

\* C11: an unquoted number literal is parsed to the tag of its suffix: b or
\* B Byte, s or S Short, l or L Long, f or F Float, d or D Double; without a
\* suffix Int, or Double when the literal holds a '.'.
C11_SuffixClassification ==
    \A body \in IntegerBodies \cup DecimalBodies, suffix \in NumberSuffixes :
        (pc = "done" /\ text = ValueText(body \o suffix) /\ IsNumber(body, suffix))
            => pres.res = "Ok" /\ pres.val = Compound1(NameA, SuffixTag(body, suffix))

\* 5.0f has been parsed to Float(5.0), and the run covers 5B
C11_Witness ==
    /\ pc = "done"
    /\ text = ValueText(<<53, 46, 48, 102>>)
    /\ pres.res = "Ok"
    /\ pres.val = Compound1(NameA, TagFloat(<<5, 0>>))

\* the elements of one variant
SameVariant(elements) ==
    \A i \in 1..Len(elements) : id_for_tag(elements[i].tag) = id_for_tag(elements[1].tag)
\* the first element whose variant is not the first element's
Offending(elements) ==
    CHOOSE i \in 1..Len(elements) :
        /\ id_for_tag(elements[i].tag) # id_for_tag(elements[1].tag)
        /\ \A j \in 1..(i - 1) : id_for_tag(elements[j].tag) = id_for_tag(elements[1].tag)
\* the byte offset of element i in ListText(elements, sep, tail)
ElementOffset(elements, i, sep) == 4 + StrLen(Joined(elements, i - 1, sep))

\* C12: in a tag list whose first element fixes the variant, the first
\* later element of another variant makes parse fail with NonHomogenousList
\* whose index is the byte offset of that element.
C12_NonHomogenousIndex ==
    \A elements \in ElementSeqs, sep \in Separators, tail \in ListTails :
        (pc = "done" /\ text = ListText(elements, sep, tail) /\ ~SameVariant(elements))
            => /\ pres.res = "Err"
               /\ pres.err.type = "NonHomogenousList"
               /\ pres.err.index = Some(ElementOffset(elements, Offending(elements), sep))

\* C13: a comma directly before the closing delimiter of a compound, a typed
\* array or a tag list makes parse fail with TrailingComma whose index is
\* the byte offset of that comma; without that comma the input parses.
C13_TrailingComma ==
    \A container \in OpenContainers :
        /\ \A sep \in Separators :
              (pc = "done" /\ text = TrailingCommaText(container, sep))
                  => /\ pres.res = "Err"
                     /\ pres.err.type = "TrailingComma"
                     /\ pres.err.index = Some(StrLen(container.head))
        /\ (pc = "done" /\ text = ClosedText(container))
              => pres.res = "Ok" /\ pres.val = container.val

\* C14: when a string parses to a compound, the string followed by any
\* further text parses to the same compound: parse stops at the brace that
\* closes the first one and does not look at what follows.
C14_PrefixParsing ==
    [][(pc = "done" /\ pc' = "garbage" /\ pres.res = "Ok")
          => (pres'.res = "Ok" /\ pres'.val = pres.val)]_vars

\* a printed tree followed by " and some garbage" has been parsed
C14_Witness ==
    /\ pc = "garbage"
    /\ api = "snbt"
    /\ root = Compound1(NameStr, TagList(<<TagInt(5)>>))
    /\ Len(text) > 17
    /\ SubSeq(text, Len(text) - 7, Len(text)) = <<32, 103, 97, 114, 98, 97, 103, 101>>
    /\ pres.res = "Ok"
    /\ pres.val = root

\* C15: a compound key is read as a string, quoted or not, also when it looks
\* like a number: {1:2}, {"1":2} and {-x:1} give an entry under that text,
\* and the key is neither classified as a number nor rejected.
C15_KeysAreStrings ==
    \A source \in KeySources :
        (pc = "done" /\ text = KeyText(source))
            => pres.res = "Ok" /\ pres.val = Compound1(source.key, TagInt(2))

\* C16: an unquoted value token that starts with '-' or a digit and is not a
\* number makes parse fail with InvalidNumber; it is never read as a String.
C16_InvalidNumber ==
    \A value \in InvalidNumbers, tail \in ValueTails :
        (pc = "done" /\ text = OpenValueText(value, tail))
            => pres.res = "Err" /\ pres.err.type = "InvalidNumber"

\* the string a quoted body denotes: an escape sequence stands for one
\* character, every other character for itself
RECURSIVE Unescaped(_)
Unescaped(body) ==
    IF body = <<>> THEN <<>>
    ELSE IF Head(body) # BACKSLASH THEN <<Head(body)>> \o Unescaped(Tail(body))
    ELSE IF body[2] = 117
         THEN <<4096 * HexValue(body[3]) + 256 * HexValue(body[4])
                  + 16 * HexValue(body[5]) + HexValue(body[6])>>
              \o Unescaped(SubSeq(body, 7, Len(body)))
    ELSE <<CASE body[2] = 110 -> 10 [] body[2] = 114 -> 13 [] body[2] = 116 -> 9
             [] OTHER -> body[2]>>
         \o Unescaped(SubSeq(body, 3, Len(body)))

\* C17: the value of a quoted string is the text between its quotes with
\* every escape sequence replaced by its character and every other character
\* copied in order, the characters after the first escape sequence and the
\* quotes of the other kind included.
C17_QuotedDecoding ==
    /\ \A body \in DoubleQuotedBodies :
          (pc = "done" /\ text = QuotedText(DQUOTE, body))
              => pres.res = "Ok" /\ pres.val = Compound1(NameA, TagString(Unescaped(body)))
    /\ \A body \in SingleQuotedBodies :
          (pc = "done" /\ text = QuotedText(SQUOTE, body))
              => pres.res = "Ok" /\ pres.val = Compound1(NameA, TagString(Unescaped(body)))

\* the token of C18 as stated: the text before the first whitespace or
\* structural character
RECURSIVE ClaimedToken(_)
ClaimedToken(body) ==
    IF body = <<>> \/ is_ascii_whitespace(Head(body)) \/ IsSingleCharToken(Head(body))
    THEN <<>>
    ELSE <<Head(body)>> \o ClaimedToken(Tail(body))

\* C18 as stated: an unquoted token ends at the first whitespace or
\* structural character outside the braces, brackets and quotes opened in
\* it, whatever the delimiter of its place: no key, value or list element
\* reaches beyond that character.
C18_EndsAtWhitespaceOrStructural ==
    /\ \A value \in UnquotedValues :
          (pc = "done" /\ text = ValueText(value) /\ pres.res = "Ok")
              => pres.val = Compound1(NameA, TagString(ClaimedToken(value)))
    /\ \A key \in UnquotedKeys :
          (pc = "done" /\ text = UnquotedKeyText(key) /\ pres.res = "Ok")
              => DOMAIN pres.val = {ClaimedToken(key)}
    /\ \A element \in UnquotedElements :
          (pc = "done" /\ text = UnquotedElementText(element) /\ pres.res = "Ok")
              => pres.val[NameA][2][2] = TagString(ClaimedToken(element))

\* C18: an unquoted token ends at the first character, outside the braces,
\* brackets and quotes opened in it, that the delimiter of its place
\* accepts (':' for a key, ',' and '}' for a value of a compound, ',' and
\* ']' for an element of a list) or at the end of the input; whitespace and
\* the other structural characters are part of the token.
C18_EndsAtDelimiter ==
    /\ \A value \in UnquotedValues :
          /\ (pc = "done" /\ text = ValueText(value))
                => pres.res = "Ok" /\ pres.val = Compound1(NameA, TagString(value))
          /\ (pc = "done" /\ text = UnquotedValueText(value))
                => /\ pres.res = "Ok"
                   /\ pres.val = NbtCompoundInsert(Compound1(NameA, TagString(value)),
                                                   <<99>>, TagInt(1))
    /\ \A key \in UnquotedKeys :
          (pc = "done" /\ text = UnquotedKeyText(key))
              => pres.res = "Ok" /\ pres.val = Compound1(key, TagInt(1))
    /\ \A element \in UnquotedElements :
          (pc = "done" /\ text = UnquotedElementText(element))
              => /\ pres.res = "Ok"
                 /\ pres.val = Compound1(NameA, TagList(<<TagString(<<122>>),
                                                          TagString(element)>>))

\* the value b c, with its space, has been read up to the comma after it
C18_Witness ==
    /\ pc = "done"
    /\ text = UnquotedValueText(<<98, SPACE, 99>>)
    /\ pres.res = "Ok"
    /\ pres.val[NameA] = TagString(<<98, SPACE, 99>>)

\* C19: the value of an unquoted string token is the source text from its
\* first character through its last character that is not whitespace; only
\* the whitespace before the delimiter is trimmed, and backslashes, quotes,
\* braces and brackets are kept, also as the last character of the token.
C19_UnquotedLossless ==
    \A value \in VerbatimValues, padding \in Paddings :
        (pc = "done" /\ text = PaddedValueText(value, padding))
            => pres.res = "Ok" /\ pres.val = Compound1(NameA, TagString(value))

\* C20: when the input ends inside a quoted string, after any content, also
\* directly after a backslash or inside a \u escape, parse fails with
\* UnmatchedQuote whose index is the byte offset of the opening quote.
C20_UnterminatedQuote ==
    \A quote \in {DQUOTE, SQUOTE}, rest \in OpenStrings :
        (pc = "done" /\ text = OpenQuoteText(quote, rest))
            => /\ pres.res = "Err"
               /\ pres.err.type = "UnmatchedQuote"
               /\ pres.err.index = Some(3)

\* C21: when the input ends before the brace that closes an open compound,
\* after a key, a colon, a value or a comma, parse fails with UnmatchedBrace
\* whose index is the byte offset of that compound's opening brace.
C21_UnmatchedBrace ==
    \A open \in OpenCompounds :
        (pc = "done" /\ text = open.src)
            => /\ pres.res = "Err"
               /\ pres.err.type = "UnmatchedBrace"
               /\ pres.err.index = Some(open.brace)

\* an element a typed array takes by C22: a literal of the array's element
\* type, or an integer literal without a suffix
OfElementType(type, element) == element.kind \in {"Int", type.kind}
\* the first element the array does not take
FirstForeign(type, elements) ==
    CHOOSE i \in 1..Len(elements) :
        /\ ~OfElementType(type, elements[i])
        /\ \A j \in 1..(i - 1) : OfElementType(type, elements[j])
\* the byte offset of element i in ArrayText(type, elements, sep, tail)
ArrayElementOffset(elements, i, sep) == 6 + StrLen(Joined(elements, i - 1, sep))

\* C22: after the type specifier B, I or L and ';' every element is a
\* numeric literal of the array's element type; the first element that is
\* not numeric or is a literal of another numeric type (1L in [B; ...], 1.0
\* in [I; ...]) makes parse fail with NonHomogenousList whose index is the
\* byte offset of that element, and an array of such literals parses.
C22_TypedArrayElements ==
    \A type \in ArrayTypes, elements \in ArrayElementSeqs, sep \in Separators :
        /\ \A tail \in ListTails :
              (/\ pc = "done"
               /\ text = ArrayText(type, elements, sep, tail)
               /\ \E i \in 1..Len(elements) : ~OfElementType(type, elements[i]))
                  => /\ pres.res = "Err"
                     /\ pres.err.type = "NonHomogenousList"
                     /\ pres.err.index
                           = Some(ArrayElementOffset(elements, FirstForeign(type, elements), sep))
        /\ (/\ pc = "done"
            /\ text = ArrayText(type, elements, sep, <<RSQUARE, RCURLY>>)
            /\ \A i \in 1..Len(elements) : OfElementType(type, elements[i]))
               => /\ pres.res = "Ok"
                  /\ pres.val = Compound1(NameA, PrimListTag(type.type,
                                    [i \in 1..Len(elements) |-> elements[i].value]))

\* C23: in a compound and in a typed array a comma stands between two
\* entries only: a comma before the first entry or after another comma makes
\* parse fail, and the entries separated by one comma each are accepted.
C23_CommaSeparation ==
    /\ \A misplaced \in MisplacedCommaTexts :
          (pc = "done" /\ text = misplaced) => pres.res = "Err"
    /\ \A source \in SeparatedSources :
          (pc = "done" /\ text = source.src) => pres.res = "Ok" /\ pres.val = source.val

\* C25: a token written in single or double quotes is a String token,
\* whatever it holds: {a:"5"} gives String("5") and {a:"-x"} String("-x"),
\* not a number and not InvalidNumber, and a quoted B, I or L before ';' is
\* not taken as the type specifier of an array.
C25_QuotedStayStrings ==
    \A quote \in {DQUOTE, SQUOTE} :
        /\ \A body \in NumberLikeBodies :
              (pc = "done" /\ text = QuotedText(quote, body))
                  => pres.res = "Ok" /\ pres.val = Compound1(NameA, TagString(body))
        /\ \A specifier \in {66, 73, 76, 98} :
              (pc = "done" /\ text = QuotedSpecifierText(quote, specifier))
                  => /\ pres.res = "Err"
                     /\ pres.err.type = "UnexpectedToken"
                     /\ pres.err.index = Some(4)

\* the item of a result: its kind, its token with index and width, its error
Item(r) == [res |-> r.res, val |-> r.val, err |-> r.err]

\* C26: the lexer holds at most one item of lookahead.  A next after a peek
\* returns the peeked item, token, index and width alike, whatever its
\* delimiter, and reads nothing: the lexer is where the peek left it.  A
\* peek after a peek returns the same item and changes nothing.  After a
\* peek the buffer holds the item returned, after a next it is empty.
C26_OneTokenLookahead ==
    pc = "lex" =>
        /\ (api = "next" /\ rres.api = "peek")
              => /\ Item(pres) = Item(rres.item)
                 /\ pres.lx = [rres.item.lx EXCEPT !.peeked = None]
        /\ (api = "peek" /\ rres.api = "peek") => pres = rres.item
        /\ api = "next" => pres.lx.peeked = None
        /\ (api = "peek" /\ pres.res # "Panic")
              => pres.lx.peeked = Some([pres EXCEPT !.lx = NoLexer])

\* in {a:[B;1,2]} the ';' after B was peeked and then taken with next, and
\* the lexer stands before the 1
C26_Witness ==
    /\ pc = "lex"
    /\ text = Text4
    /\ api = "next"
    /\ rres.api = "peek"
    /\ pres.res = "Ok"
    /\ pres.val = TokenData(<<"Semicolon">>, 5, 1)
    /\ pres.lx = [pos |-> 7, index |-> 6, peeked |-> None]

\* C28: an integer literal is parsed as an i64 and narrowed to the width of
\* its tag by truncation: a literal outside the range of Byte, Short or Int,
\* also as an element of a B or I array, is accepted with its value modulo
\* 2^8, 2^16 or 2^32 in two's complement, and a literal outside the range of
\* i64 makes parse fail with InvalidNumber.
C28_IntegerNarrowing ==
    /\ \A source \in NarrowedLiterals \cup NarrowedArrays :
          (pc = "done" /\ text = ValueText(source.src))
              => pres.res = "Ok" /\ pres.val = Compound1(NameA, source.tag)
    /\ \A literal \in OverflowLiterals :
          /\ \A tail \in ValueTails :
                (pc = "done" /\ text = OpenValueText(literal, tail))
                    => pres.res = "Err" /\ pres.err.type = "InvalidNumber"
          /\ \A spec \in {66, 73}, tail \in ListTails :
                (pc = "done" /\ text = OverflowArrayText(spec, literal, tail))
                    => pres.res = "Err" /\ pres.err.type = "InvalidNumber"

-----------------------------------------------------------------------------
(* Properties of the loops of the lexer and of the parser *)

\* the result of a call of snbt::parse followed turn by turn is that of parse
TurnsOfParse == [][pc' = "parsed" => pres' = parse(text)]_vars
\* the item of a call of tokens.next followed turn by turn through slurp_token
\* is that of Lexer::next
TurnsOfNext ==
    [][(pc = "slurp" /\ pc' = "lex")
          => pres' = LexerNext(text, rres.item.lx, frames[1].delimiter)]_vars

\* a call of tokens.next that had no peeked token to hand out: rres.item.lx is
\* the lexer before the call and pres the item with the lexer after it
NextHasRead == pc = "lex" /\ api = "next" /\ rres.item.lx.peeked = None
\* a call of tokens.next that reads from the input takes at least one
\* character when it gives a token, and gives None only at the end of input
NextConsumes ==
    NextHasRead =>
        /\ pres.res = "Ok" => pres.lx.pos >= rres.item.lx.pos + 1
        /\ pres.res = "None" => AtEnd(text, SkipWhitespace(text, rres.item.lx))
\* a turn of a loop of slurp_token after which the loop goes on has taken at
\* least one character
SlurpTurnConsumes ==
    [][(pc = "slurp" /\ pc' = "slurp") => pres'.lx.pos >= pres.lx.pos + 1]_vars
\* a turn of a loop of the parser after which parse goes on has taken at
\* least one token
ParseTurnConsumes ==
    [][(pc = "loop" /\ pc' = "loop") => Taken(text, pres'.lx) > Taken(text, pres.lx)]_vars
\* a call of tokens.next in slurp_token returns
NextReturns == (pc = "slurp") ~> (pc = "lex")
\* a call of snbt::parse returns
ParseReturns == (pc \in {"begin", "loop"}) ~> (pc = "parsed")

\* C29 as stated: every iteration of the loops in slurp_token consumes one
\* character.  A turn that reads an escape sequence takes two characters, or
\* six for \uXXXX.
C29_SlurpTurnOneCharacter ==
    [][(pc = "slurp" /\ pc' = "slurp") => pres'.lx.pos = pres.lx.pos + 1]_vars

\* C29, amended: snbt::parse returns on every input; a call of Lexer::next
\* that reads from the input takes at least one character or reports the end
\* of input; every iteration of the loops in slurp_token after which the loop
\* goes on takes at least one character; every iteration of the loops of
\* parse_compound_tag, parse_prim_list and parse_tag_list after which the
\* parser goes on takes at least one token
C29_ParserTermination ==
    /\ []NextConsumes
    /\ SlurpTurnConsumes
    /\ ParseTurnConsumes
    /\ TurnsOfNext
    /\ TurnsOfParse
    /\ NextReturns
    /\ ParseReturns
\* {a:'x',b:[1,2]} has gone through the loops of the compound and of the
\* list and parse has returned its compound
C29_Witness ==
    /\ pc = "parsed"
    /\ text = Text3
    /\ pres.res = "Ok"
    /\ pres.val = NbtCompoundInsert(Compound1(NameA, TagString(<<120>>)), <<98>>,
                                    TagList(<<TagInt(1), TagInt(2)>>))

-----------------------------------------------------------------------------
(* Properties of compounds whose input repeats a name *)

\* the names of the entries, and the value of the last entry of a name
NamesOf(entries) == {entries[i].name : i \in 1..Len(entries)}
LastOf(entries, name) ==
    entries[CHOOSE i \in 1..Len(entries) :
                /\ entries[i].name = name
                /\ \A j \in (i + 1)..Len(entries) : entries[j].name # name].value.tag
\* the compound that keeps, of every name, the last entry
LastEntries(entries) == [name \in NamesOf(entries) |-> LastOf(entries, name)]
\* the sequence of entries names some entry twice
Repeats(entries) == Cardinality(NamesOf(entries)) < Len(entries)

\* C30: the compound read_nbt and snbt::parse give for a sequence of entries
\* holds every name once, with the value of the last entry of that name, and
\* its length is the number of distinct names; so does a compound that is
\* the value of an entry
C30_LastEntryWins ==
    \A entries \in RepeatInputs :
        /\ (pc = "done" /\ writer = StreamOf[entries] /\ text = <<>>)
               => /\ rres.res = "Ok"
                  /\ rres.val[1] = LastEntries(entries)
                  /\ Cardinality(DOMAIN rres.val[1]) = Cardinality(NamesOf(entries))
        /\ (pc = "done" /\ text = TextOf[entries] /\ writer = <<>>)
               => /\ pres.res = "Ok"
                  /\ pres.val = LastEntries(entries)
                  /\ Cardinality(DOMAIN pres.val) = Cardinality(NamesOf(entries))
\* {a:1,b:x,a:{a:1,a:x}} has been parsed: "a" holds the compound, whose "a"
\* holds x, and "b" holds x
C30_Witness ==
    /\ pc = "done"
    /\ \E entries \in RepeatInputs :
          /\ Len(entries) = 3 /\ Repeats(entries)
          /\ entries[1].name = NameA /\ entries[1].value.tag = TagInt(1)
          /\ entries[3].name = NameA /\ id_for_tag(entries[3].value.tag) = 10
          /\ entries[2].name = <<98>>
          /\ text = TextOf[entries]
          /\ pres.res = "Ok"
          /\ DOMAIN pres.val = {NameA, <<98>>}
          /\ pres.val[NameA] = TagCompound([k \in {NameA} |-> TagString(<<120>>)])

====
